---- MODULE Spec2Model ----
(***************************************************************************)
(* Tick-driven simulation core of comic-modernization: the enemy actor     *)
(* system (src/src/actors.cpp), the player physics (src/src/physics.cpp)   *)
(* and the door / stage transition machine (src/src/doors.cpp,             *)
(* src/src/level_loader.cpp, src/src/main.cpp).                            *)
(***************************************************************************)
EXTENDS Integers, Sequences, FiniteSets, TLC

(***************************************************************************)
(* Program constants                                                       *)
(***************************************************************************)
ENEMY_STATE_DESPAWNED == 0
ENEMY_STATE_SPAWNED == 1
ENEMY_STATE_WHITE_SPARK == 2
ENEMY_STATE_RED_SPARK == 8
DEATH_ANIMATION_LAST_FRAME == 5

ENEMY_RESTRAINT_MOVE_THIS_TICK == 0
ENEMY_RESTRAINT_SKIP_THIS_TICK == 1
ENEMY_RESTRAINT_MOVE_EVERY_TICK == 2

ENEMY_DESPAWN_RADIUS == 30
ENEMY_GRAVITY == 2
ENEMY_JUMP_VELOCITY == -7

RESPAWN_TIMER_MIN == 20
RESPAWN_TIMER_MAX == 100
RESPAWN_TIMER_STEP == 20

ENEMY_FACING_LEFT == 0
ENEMY_FACING_RIGHT == 5

COMIC_FACING_LEFT == 0
COMIC_FACING_RIGHT == 1

MAX_NUM_ENEMIES == 4
MAX_NUM_DOORS == 3

ENEMY_BEHAVIOR_BOUNCE == 1
ENEMY_BEHAVIOR_LEAP == 2
ENEMY_BEHAVIOR_ROLL == 3
ENEMY_BEHAVIOR_SEEK == 4
ENEMY_BEHAVIOR_SHY == 5
ENEMY_BEHAVIOR_UNUSED == 127
ENEMY_BEHAVIOR_FAST == 128

EXIT_UNUSED == 255
DOOR_UNUSED == 255

COMIC_GRAVITY == 5
TERMINAL_VELOCITY == 23
JUMP_POWER_DEFAULT == 4
JUMP_POWER_WITH_BOOTS == 5
JUMP_ACCELERATION == 7

MAP_WIDTH_TILES == 128
MAP_HEIGHT_TILES == 10
MAP_WIDTH == 256
PLAYFIELD_WIDTH == 24
PLAYFIELD_HEIGHT == 20

(***************************************************************************)
(* Fixed-width integer arithmetic                                          *)
(***************************************************************************)
\* static_cast<uint8_t>(n)
U8(n) == n % 256

\* static_cast<int8_t>(n)
S8(n) == LET m == n % 256 IN IF m > 127 THEN m - 256 ELSE m

\* a division by 8 that truncates toward zero instead of flooring
Sar3_trunc(v) == IF v < 0 THEN -((-v) \div 8) ELSE v \div 8

\* v >> 3 on a signed value: arithmetic shift, i.e. floor(v / 8)
Sar3(v) == v \div 8

\* behavior & ~ENEMY_BEHAVIOR_FAST
BehaviorType(b) == IF b >= ENEMY_BEHAVIOR_FAST THEN b - ENEMY_BEHAVIOR_FAST ELSE b

\* behavior & ENEMY_BEHAVIOR_FAST
IsFast(b) == b >= ENEMY_BEHAVIOR_FAST

(***************************************************************************)
(* Tile maps.  "null" is the null tile pointer, "empty" a zero-filled      *)
(* array, "test" the layout built by init_test_level(), "stage" the tiles  *)
(* of a shipped stage (level_tiles.cpp, not part of this source tree; no   *)
(* specification below probes them).                                       *)
(***************************************************************************)
TileMaps == {"null", "empty", "test", "stage"}

\* init_test_level(): tile id at tile coordinates (tx, ty)
TestLevelTile(tx, ty) ==
    IF ty = 9 THEN 63
    ELSE IF tx \in {10, 30} /\ ty \in 5..8 THEN 63
    ELSE IF ty = 7 /\ tx \in 15..24 THEN 63
    ELSE 0

\* contents of a tile array at tile coordinates
TileOf(map, tx, ty) == IF map = "test" THEN TestLevelTile(tx, ty) ELSE 0

\* ActorSystem::get_tile_at(x, y); c is the system context of this tick
ActorTileAt(c, x, y) ==
    IF c.tiles = "null" THEN 0
    ELSE LET tile_x == x \div 2
             tile_y == y \div 2
         IN IF tile_x >= MAP_WIDTH_TILES \/ tile_y >= MAP_HEIGHT_TILES
            THEN 0
            ELSE TileOf(c.tiles, tile_x, tile_y)

\* ActorSystem::is_tile_solid(tile_id)
ActorTileSolid(c, tile_id) == tile_id > c.lp

\* ActorSystem::check_horizontal_enemy_map_collision(x, y)
check_horizontal_enemy_map_collision(c, x, y) ==
    IF ActorTileSolid(c, ActorTileAt(c, x, y)) THEN TRUE
    ELSE IF y % 2 = 1 THEN ActorTileSolid(c, ActorTileAt(c, x, U8(y + 1)))
    ELSE FALSE

\* ActorSystem::check_vertical_enemy_map_collision(x, y)
check_vertical_enemy_map_collision(c, x, y) ==
    IF ActorTileSolid(c, ActorTileAt(c, x, y)) THEN TRUE
    ELSE IF x % 2 = 1 THEN ActorTileSolid(c, ActorTileAt(c, U8(x + 1), y))
    ELSE FALSE

(***************************************************************************)
(* Enemy behaviours.  Each takes the enemy record e and the tick context   *)
(* c = [cx, cy, cf, cam, tiles, lp] and returns the enemy after the step.  *)
(***************************************************************************)

\* variant: Move-This-Tick is not followed by a skipped tick
RestraintAfter_keeps_move(r) ==
    IF r = ENEMY_RESTRAINT_SKIP_THIS_TICK THEN ENEMY_RESTRAINT_MOVE_THIS_TICK
    ELSE r

\* the restraint prologue shared by bounce, seek and shy:
\* SKIP -> MOVE (and skip), MOVE -> SKIP, EVERY stays
RestraintAfter(r) ==
    IF r = ENEMY_RESTRAINT_SKIP_THIS_TICK THEN ENEMY_RESTRAINT_MOVE_THIS_TICK
    ELSE IF r = ENEMY_RESTRAINT_MOVE_THIS_TICK THEN ENEMY_RESTRAINT_SKIP_THIS_TICK
    ELSE r

\* horizontal step of bounce and shy (sets facing, bounces on walls and
\* on the edges of the visible playfield)
BounceHorizontal(e, c) ==
    IF e.x_vel > 0
    THEN LET next_x == U8(e.x + 2)
         IN IF check_horizontal_enemy_map_collision(c, next_x, e.y)
            THEN [e EXCEPT !.facing = ENEMY_FACING_RIGHT, !.x_vel = -1]
            ELSE LET nx == U8(e.x + 1)
                 IN [e EXCEPT !.facing = ENEMY_FACING_RIGHT, !.x = nx,
                              !.x_vel = IF nx - c.cam >= PLAYFIELD_WIDTH - 2
                                        THEN -1 ELSE e.x_vel]
    ELSE IF e.x = 0
         THEN [e EXCEPT !.facing = ENEMY_FACING_LEFT, !.x_vel = 1]
         ELSE LET next_x == U8(e.x - 1)
              IN IF check_horizontal_enemy_map_collision(c, next_x, e.y)
                 THEN [e EXCEPT !.facing = ENEMY_FACING_LEFT, !.x_vel = 1]
                 ELSE [e EXCEPT !.facing = ENEMY_FACING_LEFT, !.x = next_x,
                                !.x_vel = IF next_x - c.cam <= 0
                                          THEN 1 ELSE e.x_vel]

\* vertical step of bounce
BounceVertical(e, c) ==
    IF e.y_vel > 0
    THEN IF e.y >= PLAYFIELD_HEIGHT - 2
         THEN [e EXCEPT !.y_vel = -1]
         ELSE IF check_vertical_enemy_map_collision(c, e.x, U8(e.y + 2))
              THEN [e EXCEPT !.y_vel = -1]
              ELSE LET ny == U8(e.y + 1)
                   IN [e EXCEPT !.y = ny,
                                !.y_vel = IF ny >= PLAYFIELD_HEIGHT - 2
                                          THEN -1 ELSE e.y_vel]
    ELSE IF e.y = 0
         THEN [e EXCEPT !.y_vel = 1]
         ELSE LET next_y == U8(e.y - 1)
              IN IF check_vertical_enemy_map_collision(c, e.x, next_y)
                 THEN [e EXCEPT !.y_vel = 1]
                 ELSE [e EXCEPT !.y = next_y,
                                !.y_vel = IF next_y = 0 THEN 1 ELSE e.y_vel]

\* ActorSystem::enemy_behavior_bounce
enemy_behavior_bounce(e, c) ==
    IF e.restraint = ENEMY_RESTRAINT_SKIP_THIS_TICK
    THEN [e EXCEPT !.restraint = ENEMY_RESTRAINT_MOVE_THIS_TICK]
    ELSE LET e1 == [e EXCEPT !.restraint = RestraintAfter(e.restraint)]
         IN BounceVertical(BounceHorizontal(e1, c), c)

\* horizontal step of leap: probes at the proposed y, no facing update,
\* no step when x_vel = 0
LeapHorizontal(e, c, proposed_y) ==
    IF e.x_vel > 0
    THEN LET next_x == U8(e.x + 2)
         IN IF check_horizontal_enemy_map_collision(c, next_x, proposed_y)
            THEN [e EXCEPT !.x_vel = -1]
            ELSE LET nx == U8(e.x + 1)
                 IN [e EXCEPT !.x = nx,
                              !.x_vel = IF nx - c.cam >= PLAYFIELD_WIDTH - 2
                                        THEN -1 ELSE e.x_vel]
    ELSE IF e.x_vel < 0
    THEN IF e.x = 0
         THEN [e EXCEPT !.x_vel = 1]
         ELSE LET next_x == U8(e.x - 1)
              IN IF check_horizontal_enemy_map_collision(c, next_x, proposed_y)
                 THEN [e EXCEPT !.x_vel = 1]
                 ELSE [e EXCEPT !.x = next_x,
                                !.x_vel = IF next_x - c.cam <= 0
                                          THEN 1 ELSE e.x_vel]
    ELSE e

\* variant: a tick skipped by restraint skips gravity as well
LeapFinish_restrained(e, c, proposed_y) ==
    IF e.restraint = ENEMY_RESTRAINT_SKIP_THIS_TICK
    THEN [e EXCEPT !.restraint = ENEMY_RESTRAINT_MOVE_THIS_TICK, !.y = proposed_y]
    ELSE LET new_vel == e.y_vel + ENEMY_GRAVITY
             e1 == [e EXCEPT !.y_vel = S8(IF new_vel > TERMINAL_VELOCITY
                                          THEN TERMINAL_VELOCITY ELSE new_vel),
                             !.restraint = RestraintAfter(e.restraint)]
             e3 == LeapHorizontal(e1, c, proposed_y)
             e4 == [e3 EXCEPT !.y = proposed_y]
         IN IF e4.y_vel > 0 /\ check_vertical_enemy_map_collision(c, e4.x, U8(e4.y + 3))
            THEN [e4 EXCEPT !.y = U8((e4.y + 1) - ((e4.y + 1) % 2)), !.y_vel = 0]
            ELSE e4

\* .apply_gravity, restraint, horizontal step, commit of y and
\* .check_for_ground of leap, entered with the proposed y
LeapFinish(e, c, proposed_y) ==
    LET new_vel == e.y_vel + ENEMY_GRAVITY
        e1 == [e EXCEPT !.y_vel = S8(IF new_vel > TERMINAL_VELOCITY
                                     THEN TERMINAL_VELOCITY ELSE new_vel)]
        skip_horizontal == e1.restraint = ENEMY_RESTRAINT_SKIP_THIS_TICK
        e2 == [e1 EXCEPT !.restraint = RestraintAfter(e1.restraint)]
        e3 == IF skip_horizontal THEN e2 ELSE LeapHorizontal(e2, c, proposed_y)
        e4 == [e3 EXCEPT !.y = proposed_y]
    IN IF e4.y_vel > 0 /\ check_vertical_enemy_map_collision(c, e4.x, U8(e4.y + 3))
       THEN [e4 EXCEPT !.y = U8((e4.y + 1) - ((e4.y + 1) % 2)), !.y_vel = 0]
       ELSE e4

\* ActorSystem::enemy_behavior_leap
enemy_behavior_leap(e, c) ==
    IF e.y_vel < 0
    THEN LET delta == S8(Sar3(e.y_vel))
             new_y == e.y + delta
         IN IF new_y < 0
            THEN LeapFinish(e, c, e.y)
            ELSE IF ~check_vertical_enemy_map_collision(c, e.x, U8(new_y))
                 THEN LeapFinish(e, c, U8(new_y))
                 ELSE LeapFinish(e, c, e.y)
    ELSE IF e.y_vel > 0
    THEN LET vel_over_8 == S8(Sar3(e.y_vel))
             new_y == U8(e.y + vel_over_8)
         IN IF new_y >= PLAYFIELD_HEIGHT - 2
            THEN [e EXCEPT !.state = ENEMY_STATE_WHITE_SPARK + DEATH_ANIMATION_LAST_FRAME,
                           !.y = PLAYFIELD_HEIGHT - 2]
            ELSE IF check_vertical_enemy_map_collision(c, e.x, U8(new_y + 1))
                 THEN LeapFinish(e, c, e.y)
                 ELSE LeapFinish(e, c, new_y)
    ELSE IF check_vertical_enemy_map_collision(c, e.x, U8(e.y + 2))
         THEN [e EXCEPT !.x_vel = IF c.cx >= e.x THEN 1 ELSE -1,
                        !.y_vel = ENEMY_JUMP_VELOCITY]
         ELSE LeapFinish(e, c, e.y)

\* horizontal step and ground probe of roll (after the restraint prologue)
RollMove(e, c) ==
    IF e.x_vel = 0
    THEN [e EXCEPT !.restraint = ENEMY_RESTRAINT_MOVE_THIS_TICK]
    ELSE LET e1 == IF e.x_vel > 0
                   THEN IF ~check_horizontal_enemy_map_collision(c, U8(e.x + 2), e.y)
                        THEN [e EXCEPT !.x = U8(e.x + 1)]
                        ELSE e
                   ELSE IF e.x = 0
                        THEN [e EXCEPT !.x_vel = 1]
                        ELSE IF ~check_horizontal_enemy_map_collision(c, U8(e.x - 1), e.y)
                             THEN [e EXCEPT !.x = U8(e.x - 1)]
                             ELSE e
         IN IF ~check_vertical_enemy_map_collision(c, e1.x, U8(e1.y + 3))
            THEN [e1 EXCEPT !.y_vel = 1]
            ELSE [e1 EXCEPT !.y_vel = 0]

\* restraint prologue of roll followed by the move
RollRestrained(e, c) ==
    IF e.restraint = ENEMY_RESTRAINT_SKIP_THIS_TICK
    THEN [e EXCEPT !.restraint = ENEMY_RESTRAINT_MOVE_THIS_TICK]
    ELSE RollMove([e EXCEPT !.restraint = RestraintAfter(e.restraint)], c)

\* variant: a falling roll turns toward the player as a rolling one does
enemy_behavior_roll_retarget(e, c) ==
    LET toward == IF e.x < c.cx THEN 1 ELSE IF e.x > c.cx THEN -1 ELSE 0
    IN IF e.y_vel > 0
       THEN IF e.y + 1 >= PLAYFIELD_HEIGHT - 3
            THEN [e EXCEPT !.state = ENEMY_STATE_WHITE_SPARK + DEATH_ANIMATION_LAST_FRAME,
                           !.y = PLAYFIELD_HEIGHT - 2]
            ELSE RollRestrained([e EXCEPT !.y = U8(e.y + 1), !.x_vel = toward], c)
       ELSE RollRestrained([e EXCEPT !.x_vel = toward], c)

\* ActorSystem::enemy_behavior_roll
enemy_behavior_roll(e, c) ==
    IF e.y_vel > 0
    THEN IF e.y + 1 >= PLAYFIELD_HEIGHT - 3
         THEN [e EXCEPT !.state = ENEMY_STATE_WHITE_SPARK + DEATH_ANIMATION_LAST_FRAME,
                        !.y = PLAYFIELD_HEIGHT - 2]
         ELSE RollRestrained([e EXCEPT !.y = U8(e.y + 1)], c)
    ELSE RollRestrained([e EXCEPT !.x_vel = IF e.x < c.cx THEN 1
                                            ELSE IF e.x > c.cx THEN -1 ELSE 0], c)

\* facing derived from x_vel at the end of seek
SeekFacing(e) ==
    [e EXCEPT !.facing = IF e.x_vel < 0 THEN ENEMY_FACING_LEFT ELSE ENEMY_FACING_RIGHT]

\* variant: blocked on its way right, the enemy steps back to the left
enemy_behavior_seek_recoil(e, c) ==
    IF e.restraint = ENEMY_RESTRAINT_SKIP_THIS_TICK
    THEN [e EXCEPT !.restraint = ENEMY_RESTRAINT_MOVE_THIS_TICK]
    ELSE LET e1 == [e EXCEPT !.restraint = RestraintAfter(e.restraint)]
         IN IF e1.x # c.cx
            THEN IF e1.x < c.cx
                 THEN LET next_x == U8(e1.x + 1)
                      IN IF ~check_horizontal_enemy_map_collision(c, U8(next_x + 1), e1.y)
                         THEN SeekFacing([e1 EXCEPT !.x = next_x, !.x_vel = 1])
                         ELSE SeekFacing([e1 EXCEPT !.x = U8(e1.x - 1), !.x_vel = -1])
                 ELSE IF e1.x = 0
                      THEN SeekFacing([e1 EXCEPT !.x_vel = 1])
                      ELSE LET next_x == U8(e1.x - 1)
                           IN IF ~check_horizontal_enemy_map_collision(c, next_x, e1.y)
                              THEN SeekFacing([e1 EXCEPT !.x = next_x, !.x_vel = -1])
                              ELSE SeekFacing([e1 EXCEPT !.x_vel = 1])
            ELSE IF e1.y # c.cy
                 THEN IF e1.y < c.cy
                      THEN LET next_y == U8(e1.y + 1)
                           IN IF ~check_vertical_enemy_map_collision(c, e1.x, U8(next_y + 1))
                              THEN SeekFacing([e1 EXCEPT !.y = next_y, !.y_vel = 1])
                              ELSE SeekFacing([e1 EXCEPT !.y_vel = -1])
                      ELSE LET next_y == U8(e1.y - 1)
                           IN IF ~check_vertical_enemy_map_collision(c, e1.x, next_y)
                              THEN SeekFacing([e1 EXCEPT !.y = next_y, !.y_vel = -1])
                              ELSE SeekFacing([e1 EXCEPT !.y_vel = 1])
                 ELSE SeekFacing(e1)

\* ActorSystem::enemy_behavior_seek
enemy_behavior_seek(e, c) ==
    IF e.restraint = ENEMY_RESTRAINT_SKIP_THIS_TICK
    THEN [e EXCEPT !.restraint = ENEMY_RESTRAINT_MOVE_THIS_TICK]
    ELSE LET e1 == [e EXCEPT !.restraint = RestraintAfter(e.restraint)]
         IN IF e1.x # c.cx
            THEN IF e1.x < c.cx
                 THEN LET next_x == U8(e1.x + 1)
                      IN IF ~check_horizontal_enemy_map_collision(c, U8(next_x + 1), e1.y)
                         THEN SeekFacing([e1 EXCEPT !.x = next_x, !.x_vel = 1])
                         ELSE SeekFacing([e1 EXCEPT !.x_vel = -1])
                 ELSE IF e1.x = 0
                      THEN SeekFacing([e1 EXCEPT !.x_vel = 1])
                      ELSE LET next_x == U8(e1.x - 1)
                           IN IF ~check_horizontal_enemy_map_collision(c, next_x, e1.y)
                              THEN SeekFacing([e1 EXCEPT !.x = next_x, !.x_vel = -1])
                              ELSE SeekFacing([e1 EXCEPT !.x_vel = 1])
            ELSE IF e1.y # c.cy
                 THEN IF e1.y < c.cy
                      THEN LET next_y == U8(e1.y + 1)
                           IN IF ~check_vertical_enemy_map_collision(c, e1.x, U8(next_y + 1))
                              THEN SeekFacing([e1 EXCEPT !.y = next_y, !.y_vel = 1])
                              ELSE SeekFacing([e1 EXCEPT !.y_vel = -1])
                      ELSE LET next_y == U8(e1.y - 1)
                           IN IF ~check_vertical_enemy_map_collision(c, e1.x, next_y)
                              THEN SeekFacing([e1 EXCEPT !.y = next_y, !.y_vel = -1])
                              ELSE SeekFacing([e1 EXCEPT !.y_vel = 1])
                 ELSE SeekFacing(e1)

\* vertical step of shy, entered with y_vel already chosen
ShyVertical(e, c) ==
    IF e.y_vel > 0
    THEN IF check_vertical_enemy_map_collision(c, e.x, U8(e.y + 2))
         THEN [e EXCEPT !.y_vel = -1]
         ELSE LET ny == U8(e.y + 1)
              IN [e EXCEPT !.y = ny,
                           !.y_vel = IF ny >= PLAYFIELD_HEIGHT - 2 THEN -1 ELSE e.y_vel]
    ELSE IF e.y_vel < 0
    THEN IF e.y = 0
         THEN [e EXCEPT !.y_vel = 1]
         ELSE LET next_y == U8(e.y - 1)
              IN IF check_vertical_enemy_map_collision(c, e.x, next_y)
                 THEN [e EXCEPT !.y_vel = 1]
                 ELSE [e EXCEPT !.y = next_y,
                                !.y_vel = IF next_y = 0 THEN 1 ELSE e.y_vel]
    ELSE e

\* variant: a faced enemy keeps the vertical velocity it had
enemy_behavior_shy_keeps_velocity(e, c) ==
    IF e.restraint = ENEMY_RESTRAINT_SKIP_THIS_TICK
    THEN [e EXCEPT !.restraint = ENEMY_RESTRAINT_MOVE_THIS_TICK]
    ELSE LET e1 == [e EXCEPT !.restraint = RestraintAfter(e.restraint)]
             comic_facing_enemy ==
                 \/ (c.cf = COMIC_FACING_RIGHT /\ e1.x > c.cx)
                 \/ (c.cf = COMIC_FACING_LEFT /\ e1.x < c.cx)
             e2 == BounceHorizontal(e1, c)
             e3 == [e2 EXCEPT !.y_vel = IF comic_facing_enemy THEN e2.y_vel
                                        ELSE IF e2.y < c.cy THEN 1
                                        ELSE IF e2.y > c.cy THEN -1 ELSE 0]
         IN ShyVertical(e3, c)

\* ActorSystem::enemy_behavior_shy
enemy_behavior_shy(e, c) ==
    IF e.restraint = ENEMY_RESTRAINT_SKIP_THIS_TICK
    THEN [e EXCEPT !.restraint = ENEMY_RESTRAINT_MOVE_THIS_TICK]
    ELSE LET e1 == [e EXCEPT !.restraint = RestraintAfter(e.restraint)]
             comic_facing_enemy ==
                 \/ (c.cf = COMIC_FACING_RIGHT /\ e1.x > c.cx)
                 \/ (c.cf = COMIC_FACING_LEFT /\ e1.x < c.cx)
             e2 == BounceHorizontal(e1, c)
             e3 == [e2 EXCEPT !.y_vel = IF comic_facing_enemy THEN -1
                                        ELSE IF e2.y < c.cy THEN 1
                                        ELSE IF e2.y > c.cy THEN -1 ELSE 0]
         IN ShyVertical(e3, c)

\* ActorSystem::handle_single_enemy: dispatch on the behaviour type
handle_single_enemy(e, c) ==
    LET behavior_type == BehaviorType(e.behavior)
    IN IF behavior_type = ENEMY_BEHAVIOR_BOUNCE THEN enemy_behavior_bounce(e, c)
       ELSE IF behavior_type = ENEMY_BEHAVIOR_LEAP THEN enemy_behavior_leap(e, c)
       ELSE IF behavior_type = ENEMY_BEHAVIOR_ROLL THEN enemy_behavior_roll(e, c)
       ELSE IF behavior_type = ENEMY_BEHAVIOR_SEEK THEN enemy_behavior_seek(e, c)
       ELSE IF behavior_type = ENEMY_BEHAVIOR_SHY THEN enemy_behavior_shy(e, c)
       ELSE e

(***************************************************************************)
(* Level descriptors (level.h, level_data.cpp).  C arrays are modelled as  *)
(* functions on 0..n-1.                                                    *)
(***************************************************************************)
\* a C array literal as a function on 0..n-1
Arr(s) == [i \in 0..(Len(s) - 1) |-> s[i + 1]]

\* door_t {y, x, target_level, target_stage}
Door(y, x, tl, ts) == [y |-> y, x |-> x, target_level |-> tl, target_stage |-> ts]

\* enemy_record_t {shp_index, behavior}
Rec(shp_index, behavior) == [shp_index |-> shp_index, behavior |-> behavior]

\* stage_t (exits, doors, enemy records)
Stage(exit_l, exit_r, doors, recs) ==
    [exit_l |-> exit_l, exit_r |-> exit_r, doors |-> Arr(doors), enemies |-> Arr(recs)]

\* level_t (solidity threshold, num_distinct_frames of the four shp_t, stages)
Level(lp, shp, stages) ==
    [tileset_last_passable |-> lp, shp |-> Arr(shp), stages |-> Arr(stages)]

\* level_data_lake
level_data_lake ==
    Level(68, <<3, 3, 0, 0>>,
        <<Stage(1, 255,
              <<Door(10, 118, 1, 2), Door(14, 248, 5, 0), Door(255, 255, 0, 0)>>,
              <<Rec(0, 127), Rec(0, 127), Rec(1, 2), Rec(1, 2)>>),
          Stage(2, 0,
              <<Door(255, 255, 0, 0), Door(255, 255, 0, 0), Door(255, 255, 0, 0)>>,
              <<Rec(0, 1), Rec(0, 1), Rec(1, 2), Rec(1, 2)>>),
          Stage(255, 1,
              <<Door(14, 10, 4, 0), Door(6, 110, 2, 0), Door(8, 74, 3, 1)>>,
              <<Rec(0, 1), Rec(0, 1), Rec(1, 2), Rec(1, 2)>>)>>)

\* level_data_forest
level_data_forest ==
    Level(68, <<3, 3, 0, 0>>,
        <<Stage(255, 1,
              <<Door(12, 12, 6, 0), Door(255, 255, 0, 0), Door(255, 255, 0, 0)>>,
              <<Rec(0, 1), Rec(0, 1), Rec(0, 127), Rec(0, 127)>>),
          Stage(0, 2,
              <<Door(255, 255, 0, 0), Door(255, 255, 0, 0), Door(255, 255, 0, 0)>>,
              <<Rec(0, 1), Rec(1, 5), Rec(0, 127), Rec(0, 127)>>),
          Stage(1, 255,
              <<Door(12, 238, 0, 0), Door(14, 160, 7, 2), Door(255, 255, 0, 0)>>,
              <<Rec(0, 1), Rec(1, 1), Rec(0, 127), Rec(1, 5)>>)>>)

\* level_data_space
level_data_space ==
    Level(71, <<4, 4, 0, 0>>,
        <<Stage(255, 1,
              <<Door(12, 2, 0, 2), Door(255, 255, 0, 0), Door(255, 255, 0, 0)>>,
              <<Rec(0, 1), Rec(0, 1), Rec(0, 1), Rec(0, 1)>>),
          Stage(0, 2,
              <<Door(255, 255, 0, 0), Door(255, 255, 0, 0), Door(255, 255, 0, 0)>>,
              <<Rec(0, 1), Rec(0, 1), Rec(0, 1), Rec(1, 1)>>),
          Stage(1, 255,
              <<Door(12, 228, 3, 0), Door(255, 255, 0, 0), Door(255, 255, 0, 0)>>,
              <<Rec(0, 1), Rec(0, 1), Rec(1, 1), Rec(1, 129)>>)>>)

\* level_data_base
level_data_base ==
    Level(59, <<3, 4, 0, 0>>,
        <<Stage(1, 2,
              <<Door(14, 240, 3, 2), Door(14, 114, 3, 1), Door(8, 138, 2, 2)>>,
              <<Rec(0, 2), Rec(0, 2), Rec(0, 2), Rec(1, 4)>>),
          Stage(0, 2,
              <<Door(6, 0, 0, 2), Door(14, 112, 3, 0), Door(0, 0, 3, 2)>>,
              <<Rec(0, 2), Rec(0, 2), Rec(0, 127), Rec(1, 2)>>),
          Stage(0, 255,
              <<Door(14, 236, 4, 0), Door(8, 138, 3, 0), Door(255, 255, 0, 0)>>,
              <<Rec(0, 2), Rec(0, 130), Rec(1, 4), Rec(1, 4)>>)>>)

\* level_data_cave
level_data_cave ==
    Level(9, <<3, 3, 0, 0>>,
        <<Stage(255, 1,
              <<Door(12, 8, 0, 2), Door(4, 40, 4, 1), Door(2, 154, 4, 2)>>,
              <<Rec(0, 2), Rec(0, 2), Rec(0, 2), Rec(1, 2)>>),
          Stage(0, 2,
              <<Door(14, 236, 4, 0), Door(255, 255, 0, 0), Door(255, 255, 0, 0)>>,
              <<Rec(0, 2), Rec(0, 130), Rec(1, 4), Rec(1, 4)>>),
          Stage(1, 255,
              <<Door(14, 4, 5, 1), Door(8, 242, 7, 0), Door(255, 255, 0, 0)>>,
              <<Rec(0, 2), Rec(0, 130), Rec(1, 4), Rec(1, 4)>>)>>)

\* level_data_shed
level_data_shed ==
    Level(23, <<3, 3, 4, 0>>,
        <<Stage(255, 1,
              <<Door(12, 4, 0, 0), Door(255, 255, 0, 0), Door(255, 255, 0, 0)>>,
              <<Rec(0, 1), Rec(0, 1), Rec(1, 4), Rec(2, 2)>>),
          Stage(0, 255,
              <<Door(4, 240, 5, 2), Door(255, 255, 0, 0), Door(255, 255, 0, 0)>>,
              <<Rec(0, 1), Rec(1, 4), Rec(1, 2), Rec(2, 2)>>),
          Stage(255, 255,
              <<Door(14, 4, 5, 1), Door(8, 242, 7, 0), Door(255, 255, 0, 0)>>,
              <<Rec(0, 129), Rec(1, 4), Rec(2, 2), Rec(2, 130)>>)>>)

\* level_data_castle
level_data_castle ==
    Level(72, <<3, 4, 4, 3>>,
        <<Stage(255, 255,
              <<Door(14, 246, 1, 0), Door(4, 228, 6, 2), Door(8, 8, 6, 1)>>,
              <<Rec(0, 1), Rec(1, 3), Rec(2, 2), Rec(3, 4)>>),
          Stage(255, 255,
              <<Door(14, 8, 6, 0), Door(2, 8, 6, 2), Door(255, 255, 0, 0)>>,
              <<Rec(0, 129), Rec(1, 2), Rec(2, 130), Rec(2, 5)>>),
          Stage(255, 255,
              <<Door(8, 8, 6, 1), Door(4, 246, 6, 0), Door(255, 255, 0, 0)>>,
              <<Rec(1, 2), Rec(3, 4), Rec(3, 4), Rec(3, 132)>>)>>)

\* level_data_comp
level_data_comp ==
    Level(29, <<4, 4, 3, 0>>,
        <<Stage(255, 1,
              <<Door(8, 6, 5, 2), Door(255, 255, 0, 0), Door(255, 255, 0, 0)>>,
              <<Rec(0, 1), Rec(1, 1), Rec(2, 1), Rec(0, 127)>>),
          Stage(0, 2,
              <<Door(14, 244, 1, 2), Door(255, 255, 0, 0), Door(255, 255, 0, 0)>>,
              <<Rec(0, 1), Rec(1, 1), Rec(2, 2), Rec(2, 2)>>),
          Stage(1, 255,
              <<Door(14, 244, 1, 2), Door(255, 255, 0, 0), Door(255, 255, 0, 0)>>,
              <<Rec(0, 129), Rec(1, 129), Rec(2, 129), Rec(0, 127)>>)>>)

\* source_levels[8] / level_data_pointers[8]
source_levels ==
    Arr(<<level_data_lake, level_data_forest, level_data_space, level_data_base, level_data_cave, level_data_shed, level_data_castle, level_data_comp>>)

(***************************************************************************)
(* Player and stage state.  g is the record of the globals of main.cpp     *)
(* (fields named as the globals), the statics of physics.cpp               *)
(* (current_tiles, tileset_last_passable, ceiling_stick_flag) and the      *)
(* static levels_initialized of level_loader.cpp.  current_level_ptr is    *)
(* -1 for the null pointer, 0..7 for source_levels[n] and 8 upward for     *)
(* level descriptors built by the tests.                                   *)
(***************************************************************************)
\* create_test_level_with_door(10, 8, 1, 1): one door in stage 0, the rest
\* of the descriptor zero-filled
test_level_one_door ==
    Level(0, <<0, 0, 0, 0>>,
        <<Stage(0, 0,
              <<Door(8, 10, 1, 1), Door(255, 255, 0, 0), Door(255, 255, 0, 0)>>,
              <<Rec(0, 0), Rec(0, 0), Rec(0, 0), Rec(0, 0)>>),
          Stage(0, 0,
              <<Door(0, 0, 0, 0), Door(0, 0, 0, 0), Door(0, 0, 0, 0)>>,
              <<Rec(0, 0), Rec(0, 0), Rec(0, 0), Rec(0, 0)>>),
          Stage(0, 0,
              <<Door(0, 0, 0, 0), Door(0, 0, 0, 0), Door(0, 0, 0, 0)>>,
              <<Rec(0, 0), Rec(0, 0), Rec(0, 0), Rec(0, 0)>>)>>)

\* a descriptor built the same way for level number 1 in which stage 0 has
\* two doors into stage 1 (and two doors share a position), and stage 1 has
\* a door back into stage 0
test_level_two_doors ==
    Level(0, <<0, 0, 0, 0>>,
        <<Stage(255, 255,
              <<Door(8, 10, 1, 1), Door(8, 40, 1, 1), Door(8, 40, 1, 2)>>,
              <<Rec(0, 127), Rec(0, 127), Rec(0, 127), Rec(0, 127)>>),
          Stage(255, 255,
              <<Door(255, 255, 0, 0), Door(12, 20, 1, 0), Door(255, 255, 0, 0)>>,
              <<Rec(0, 127), Rec(0, 127), Rec(0, 127), Rec(0, 127)>>),
          Stage(255, 255,
              <<Door(12, 30, 1, 0), Door(255, 255, 0, 0), Door(12, 60, 9, 0)>>,
              <<Rec(0, 127), Rec(0, 127), Rec(0, 127), Rec(0, 127)>>)>>)

\* a descriptor built the same way for level number 1 whose doors stand at
\* floor height of the test level (stage 0 and stage 1 lead to each other)
\* and whose stage 0 has a left exit that is no stage number
test_level_floor_door ==
    Level(0, <<0, 0, 0, 0>>,
        <<Stage(3, 255,
              <<Door(14, 6, 1, 1), Door(255, 255, 0, 0), Door(255, 255, 0, 0)>>,
              <<Rec(0, 127), Rec(0, 127), Rec(0, 127), Rec(0, 127)>>),
          Stage(255, 2,
              <<Door(14, 6, 1, 0), Door(255, 255, 0, 0), Door(255, 255, 0, 0)>>,
              <<Rec(0, 127), Rec(0, 127), Rec(0, 127), Rec(0, 127)>>),
          Stage(1, 255,
              <<Door(255, 255, 0, 0), Door(255, 255, 0, 0), Door(255, 255, 0, 0)>>,
              <<Rec(0, 127), Rec(0, 127), Rec(0, 127), Rec(0, 127)>>)>>)

\* the level descriptor a current_level_ptr value points to
LevelAt(ptr) ==
    IF ptr = 8 THEN test_level_one_door
    ELSE IF ptr = 9 THEN test_level_two_doors
    ELSE IF ptr = 10 THEN test_level_floor_door
    ELSE source_levels[ptr]

\* get_tile_at(x, y) of physics.cpp; both arguments are narrowed to uint8_t
get_tile_at(g, x, y) ==
    LET tile_x == U8(x) \div 2
        tile_y == U8(y) \div 2
    IN IF tile_x >= MAP_WIDTH_TILES \/ tile_y >= MAP_HEIGHT_TILES
       THEN 0
       ELSE TileOf(g.current_tiles, tile_x, tile_y)

\* variant: the threshold tile itself counts as solid
is_tile_solid_inclusive(g, tile_id) == tile_id >= g.tileset_last_passable

\* is_tile_solid(tile_id) of physics.cpp
is_tile_solid(g, tile_id) == tile_id > g.tileset_last_passable

\* variant: the camera is clamped at the left end of the map only
ClampCamera_left_only(cam) == IF cam < 0 THEN 0 ELSE cam

\* the camera clamp of load_new_stage
ClampCamera(cam) ==
    IF cam < 0 THEN 0
    ELSE IF cam > MAP_WIDTH - PLAYFIELD_WIDTH THEN MAP_WIDTH - PLAYFIELD_WIDTH
    ELSE cam

\* is the door slot in use
DoorUsed(door) == door.x # DOOR_UNUSED /\ door.y # DOOR_UNUSED

\* a reciprocal-door search that keeps the highest matching slot
ReciprocalDoor_last(g, stage) ==
    LET hits == {i \in 0..(MAX_NUM_DOORS - 1) :
                    /\ DoorUsed(stage.doors[i])
                    /\ stage.doors[i].target_level = g.source_door_level_number
                    /\ stage.doors[i].target_stage = g.source_door_stage_number}
    IN IF hits = {} THEN -1 ELSE CHOOSE i \in hits : \A j \in hits : i >= j

\* the reciprocal-door search of load_new_stage: the lowest used slot of
\* the stage whose target is the source level and stage, or -1
ReciprocalDoor(g, stage) ==
    LET hits == {i \in 0..(MAX_NUM_DOORS - 1) :
                    /\ DoorUsed(stage.doors[i])
                    /\ stage.doors[i].target_level = g.source_door_level_number
                    /\ stage.doors[i].target_stage = g.source_door_stage_number}
    IN IF hits = {} THEN -1 ELSE CHOOSE i \in hits : \A j \in hits : i <= j

\* load_stage_tiles(level_name, stage) when it succeeds: the tile grid of
\* the stage and the last-passable threshold of the level named by
\* current_level_number are installed in the physics module
load_stage_tiles(g) ==
    [g EXCEPT !.current_tiles = "stage",
              !.tileset_last_passable =
                  source_levels[g.current_level_number].tileset_last_passable]

\* load_new_stage(); tiles_ok is the result of load_stage_tiles, which is
\* not part of this source tree
load_new_stage(g, tiles_ok) ==
    IF ~g.levels_initialized THEN g
    ELSE IF g.current_level_ptr < 0 THEN g
    ELSE IF g.current_stage_number >= 3 THEN g
    ELSE IF ~tiles_ok THEN g
    ELSE LET g1 == load_stage_tiles(g)
             stage == LevelAt(g.current_level_ptr).stages[g.current_stage_number]
         IN IF g.source_door_level_number >= 0
            THEN LET i == ReciprocalDoor(g, stage)
                     g2 == IF i < 0 THEN g1
                           ELSE [g1 EXCEPT !.comic_x = stage.doors[i].x + 1,
                                           !.comic_y = stage.doors[i].y,
                                           !.comic_y_vel = 0,
                                           !.camera_x =
                                               ClampCamera(stage.doors[i].x + 1
                                                           - PLAYFIELD_WIDTH \div 2)]
                 IN [g2 EXCEPT !.source_door_level_number = -1,
                               !.source_door_stage_number = -1]
            ELSE [g1 EXCEPT !.camera_x = ClampCamera(g.comic_x - PLAYFIELD_WIDTH \div 2)]

\* load_new_level()
load_new_level(g, tiles_ok) ==
    IF ~g.levels_initialized THEN g
    ELSE IF g.current_level_number >= 8 THEN g
    ELSE load_new_stage([g EXCEPT !.current_level_ptr = g.current_level_number],
                        tiles_ok)

\* variant: the crossing does not mark itself as a non-door transition
CrossStageEdge_keeps_marker(g, tiles_ok, target, new_x) ==
    IF g.current_level_ptr < 0 THEN [g EXCEPT !.comic_x_momentum = 0]
    ELSE IF g.current_stage_number >= 3 THEN [g EXCEPT !.comic_x_momentum = 0]
    ELSE IF target = EXIT_UNUSED THEN [g EXCEPT !.comic_x_momentum = 0]
    ELSE load_new_stage([g EXCEPT !.current_stage_number = target,
                                  !.comic_y_vel = 0,
                                  !.comic_y_checkpoint = U8(g.comic_y),
                                  !.comic_x_checkpoint = new_x,
                                  !.comic_x = new_x],
                        tiles_ok)

\* the stage-edge branch shared by move_left and move_right: target is
\* the exit of the current stage in that direction, new_x the x at which
\* the player enters the next stage
CrossStageEdge(g, tiles_ok, target, new_x) ==
    IF g.current_level_ptr < 0 THEN [g EXCEPT !.comic_x_momentum = 0]
    ELSE IF g.current_stage_number >= 3 THEN [g EXCEPT !.comic_x_momentum = 0]
    ELSE IF target = EXIT_UNUSED THEN [g EXCEPT !.comic_x_momentum = 0]
    ELSE load_new_stage([g EXCEPT !.current_stage_number = target,
                                  !.comic_y_vel = 0,
                                  !.comic_y_checkpoint = U8(g.comic_y),
                                  !.comic_x_checkpoint = new_x,
                                  !.comic_x = new_x,
                                  !.source_door_level_number = -1],
                        tiles_ok)

\* the exit of the current stage to the left / right (read only when the
\* level pointer and the stage number are valid)
ExitOf(g, side) ==
    IF g.current_level_ptr < 0 \/ g.current_stage_number >= 3 THEN EXIT_UNUSED
    ELSE LET stage == LevelAt(g.current_level_ptr).stages[g.current_stage_number]
         IN IF side = "l" THEN stage.exit_l ELSE stage.exit_r

\* move_left()
move_left(g, tiles_ok) ==
    IF g.comic_x = 0
    THEN CrossStageEdge(g, tiles_ok, ExitOf(g, "l"), MAP_WIDTH - 2)
    ELSE LET new_x == g.comic_x - 1
             check_y == U8(g.comic_y + 3)
         IN IF is_tile_solid(g, get_tile_at(g, new_x, check_y))
            THEN [g EXCEPT !.comic_x_momentum = 0]
            ELSE LET relative_x == new_x - g.camera_x
                 IN [g EXCEPT !.comic_x = new_x,
                              !.comic_facing = 0,
                              !.camera_x =
                                  IF g.camera_x > 0
                                     /\ relative_x < PLAYFIELD_WIDTH \div 2 - 2
                                  THEN g.camera_x - 1 ELSE g.camera_x]

\* variant: the rightward probe looks at the new position itself
move_right_probes_new_x(g, tiles_ok) ==
    IF g.comic_x >= MAP_WIDTH - 2
    THEN CrossStageEdge(g, tiles_ok, ExitOf(g, "r"), 0)
    ELSE LET new_x == g.comic_x + 1
             check_y == U8(g.comic_y + 3)
         IN IF is_tile_solid(g, get_tile_at(g, new_x, check_y))
            THEN [g EXCEPT !.comic_x_momentum = 0]
            ELSE LET relative_x == new_x - g.camera_x
                 IN [g EXCEPT !.comic_x = new_x,
                              !.comic_facing = 1,
                              !.camera_x =
                                  IF g.camera_x < MAP_WIDTH - PLAYFIELD_WIDTH
                                     /\ relative_x > PLAYFIELD_WIDTH \div 2
                                  THEN g.camera_x + 1 ELSE g.camera_x]

\* move_right()
move_right(g, tiles_ok) ==
    IF g.comic_x >= MAP_WIDTH - 2
    THEN CrossStageEdge(g, tiles_ok, ExitOf(g, "r"), 0)
    ELSE LET new_x == g.comic_x + 1
             check_y == U8(g.comic_y + 3)
             check_tile_x == U8(new_x + 1)
         IN IF is_tile_solid(g, get_tile_at(g, check_tile_x, check_y))
            THEN [g EXCEPT !.comic_x_momentum = 0]
            ELSE LET relative_x == new_x - g.camera_x
                 IN [g EXCEPT !.comic_x = new_x,
                              !.comic_facing = 1,
                              !.camera_x =
                                  IF g.camera_x < MAP_WIDTH - PLAYFIELD_WIDTH
                                     /\ relative_x > PLAYFIELD_WIDTH \div 2
                                  THEN g.camera_x + 1 ELSE g.camera_x]

\* a jump trigger that does not look at the jump counter
process_jump_input_no_counter(g) ==
    LET g1 == IF /\ g.comic_is_falling_or_jumping = 0
                 /\ g.key_state_jump # 0
                 /\ g.previous_key_state_jump = 0
              THEN [g EXCEPT !.comic_is_falling_or_jumping = 1]
              ELSE g
    IN [g1 EXCEPT !.previous_key_state_jump = g.key_state_jump]

\* process_jump_input()
process_jump_input(g) ==
    LET g1 == IF /\ g.comic_is_falling_or_jumping = 0
                 /\ g.key_state_jump # 0
                 /\ g.previous_key_state_jump = 0
                 /\ g.comic_jump_counter = g.comic_jump_power
              THEN [g EXCEPT !.comic_is_falling_or_jumping = 1]
              ELSE g
    IN [g1 EXCEPT !.previous_key_state_jump = g.key_state_jump]

\* is the tile at (x, y), or for odd x its right neighbour, solid: the
\* probe used for the head and for the feet in handle_fall_or_jump
SolidAtOrRight(g, x, y) ==
    \/ is_tile_solid(g, get_tile_at(g, x, y))
    \/ (x % 2 = 1 /\ is_tile_solid(g, get_tile_at(g, x + 1, y)))

\* handle_fall_or_jump(), steps 1 to 3: the velocity that step 4
\* integrates, after the upward acceleration of a held jump whose counter
\* has not run out
AirVelocity(g) ==
    LET counter == IF g.comic_jump_counter > 0 THEN g.comic_jump_counter - 1
                   ELSE g.comic_jump_counter
    IN IF counter # 0 /\ g.key_state_jump # 0
       THEN S8(g.comic_y_vel - JUMP_ACCELERATION) ELSE g.comic_y_vel

\* steps 1 to 5 without the clamp to the terminal velocity
AirVertical_no_terminal(g) ==
    LET counter == IF g.comic_jump_counter > 0 THEN g.comic_jump_counter - 1
                   ELSE g.comic_jump_counter
        expired == counter = 0
        vel == AirVelocity(g)
        stick == IF expired \/ g.key_state_jump = 0 THEN FALSE
                 ELSE g.ceiling_stick_flag
        y1 == g.comic_y + Sar3(vel) + (IF stick THEN 1 ELSE 0)
        fell == y1 >= PLAYFIELD_HEIGHT - 3
        vel2 == S8((IF fell THEN 0 ELSE vel) + COMIC_GRAVITY)
    IN [g EXCEPT !.comic_jump_counter = IF expired THEN 1 ELSE counter,
                 !.ceiling_stick_flag = FALSE,
                 !.comic_y = IF fell THEN 1 ELSE y1,
                 !.comic_is_falling_or_jumping =
                     IF fell THEN 0 ELSE g.comic_is_falling_or_jumping,
                 !.comic_y_vel = vel2]

\* handle_fall_or_jump(), steps 1 to 5 of the airborne branch: jump
\* counter, upward acceleration, integration, ceiling stick, the bottom
\* bound, gravity
AirVertical(g) ==
    LET counter == IF g.comic_jump_counter > 0 THEN g.comic_jump_counter - 1
                   ELSE g.comic_jump_counter
        expired == counter = 0
        vel == AirVelocity(g)
        stick == IF expired \/ g.key_state_jump = 0 THEN FALSE
                 ELSE g.ceiling_stick_flag
        y1 == g.comic_y + Sar3(vel) + (IF stick THEN 1 ELSE 0)
        fell == y1 >= PLAYFIELD_HEIGHT - 3
        vel2 == S8((IF fell THEN 0 ELSE vel) + COMIC_GRAVITY)
    IN [g EXCEPT !.comic_jump_counter = IF expired THEN 1 ELSE counter,
                 !.ceiling_stick_flag = FALSE,
                 !.comic_y = IF fell THEN 1 ELSE y1,
                 !.comic_is_falling_or_jumping =
                     IF fell THEN 0 ELSE g.comic_is_falling_or_jumping,
                 !.comic_y_vel = IF vel2 > TERMINAL_VELOCITY
                                 THEN TERMINAL_VELOCITY ELSE vel2]

\* handle_fall_or_jump(), step 6: mid-air momentum from the keys, drag,
\* and the horizontal moves
AirHorizontal(g, tiles_ok) ==
    LET m1 == IF g.key_state_left # 0
              THEN (IF S8(g.comic_x_momentum - 1) < -5 THEN -5
                    ELSE S8(g.comic_x_momentum - 1))
              ELSE g.comic_x_momentum
        m2 == IF g.key_state_right # 0
              THEN (IF S8(m1 + 1) > 5 THEN 5 ELSE S8(m1 + 1))
              ELSE m1
        g1 == [g EXCEPT !.comic_x_momentum = m2]
        g2 == IF g1.comic_x_momentum < 0
              THEN move_left([g1 EXCEPT !.comic_x_momentum = m2 + 1], tiles_ok)
              ELSE g1
    IN IF g2.comic_x_momentum > 0
       THEN move_right([g2 EXCEPT !.comic_x_momentum = g2.comic_x_momentum - 1],
                       tiles_ok)
       ELSE g2

\* variant: a landing leaves y where the integration put it
AirCollide_no_snap(g) ==
    LET g1 == IF g.comic_y_vel < 0 /\ SolidAtOrRight(g, g.comic_x, g.comic_y)
              THEN [g EXCEPT !.ceiling_stick_flag = TRUE, !.comic_y_vel = 0]
              ELSE g
        foot_y == U8(g1.comic_y + 5)
    IN IF g1.comic_y_vel > 0 /\ SolidAtOrRight(g1, g1.comic_x, foot_y)
       THEN [g1 EXCEPT !.comic_is_falling_or_jumping = 0,
                       !.comic_y_vel = 0,
                       !.comic_x_momentum = 0]
       ELSE g1

\* handle_fall_or_jump(), steps 7 and 8: ceiling and ground collision
AirCollide(g) ==
    LET g1 == IF g.comic_y_vel < 0 /\ SolidAtOrRight(g, g.comic_x, g.comic_y)
              THEN [g EXCEPT !.ceiling_stick_flag = TRUE, !.comic_y_vel = 0]
              ELSE g
        foot_y == U8(g1.comic_y + 5)
    IN IF g1.comic_y_vel > 0 /\ SolidAtOrRight(g1, g1.comic_x, foot_y)
       THEN [g1 EXCEPT !.comic_y = (foot_y \div 2) * 2 - 4,
                       !.comic_is_falling_or_jumping = 0,
                       !.comic_y_vel = 0,
                       !.comic_x_momentum = 0]
       ELSE g1

\* a grounded branch that recharges the jump counter whether or not jump
\* is held
Grounded_always_recharge(g) ==
    LET g1 == [g EXCEPT !.comic_jump_counter = g.comic_jump_power]
    IN IF SolidAtOrRight(g1, g1.comic_x, U8(g1.comic_y + 5)) THEN g1
       ELSE [g1 EXCEPT !.comic_is_falling_or_jumping = 1]

\* handle_fall_or_jump(), the grounded branch: recharge the jump counter
\* and start falling when nothing solid is under the feet
Grounded(g) ==
    LET g1 == IF g.key_state_jump = 0
              THEN [g EXCEPT !.comic_jump_counter = g.comic_jump_power]
              ELSE g
    IN IF SolidAtOrRight(g1, g1.comic_x, U8(g1.comic_y + 5)) THEN g1
       ELSE [g1 EXCEPT !.comic_is_falling_or_jumping = 1]

\* handle_fall_or_jump()
handle_fall_or_jump(g, tiles_ok) ==
    IF g.comic_is_falling_or_jumping # 0
    THEN AirCollide(AirHorizontal(AirVertical(g), tiles_ok))
    ELSE Grounded(g)

\* a door search whose band is one unit wider
DoorAtPlayer_wide(g) ==
    LET stage == LevelAt(g.current_level_ptr).stages[g.current_stage_number]
        hits == {i \in 0..(MAX_NUM_DOORS - 1) :
                    /\ DoorUsed(stage.doors[i])
                    /\ g.comic_y = stage.doors[i].y
                    /\ g.comic_x - stage.doors[i].x >= 0
                    /\ g.comic_x - stage.doors[i].x <= 3
                    /\ g.comic_has_door_key = 1}
    IN IF hits = {} THEN -1 ELSE CHOOSE i \in hits : \A j \in hits : i <= j

\* the door check_door_activation activates for the player's position:
\* the lowest used slot of the current stage with door.y = comic_y and
\* 0 <= comic_x - door.x <= 2, provided the player holds the key; -1 if
\* there is none (read only when the level pointer and stage are valid)
DoorAtPlayer(g) ==
    LET stage == LevelAt(g.current_level_ptr).stages[g.current_stage_number]
        hits == {i \in 0..(MAX_NUM_DOORS - 1) :
                    /\ DoorUsed(stage.doors[i])
                    /\ g.comic_y = stage.doors[i].y
                    /\ g.comic_x - stage.doors[i].x >= 0
                    /\ g.comic_x - stage.doors[i].x <= 2
                    /\ g.comic_has_door_key = 1}
    IN IF hits = {} THEN -1 ELSE CHOOSE i \in hits : \A j \in hits : i <= j

\* the door slot check_door_activation activates in state g, or -1 when it
\* returns 0
ActivatedDoor(g) ==
    IF g.current_level_ptr < 0 THEN -1
    ELSE IF g.current_stage_number >= 3 THEN -1
    ELSE IF g.key_state_open # 1 THEN -1
    ELSE DoorAtPlayer(g)

\* activate_door(door): the validation of the door's target
DoorTargetValid(door) == door.target_stage < 3 /\ door.target_level < 8

\* a departure that does not record where the player came from
DoorDeparture_no_marker(g, door) ==
    [g EXCEPT !.current_stage_number = door.target_stage,
              !.current_level_number = door.target_level]

\* activate_door(door): the globals at the moment it calls the loader, the
\* source-door marker and the new stage and level numbers written
DoorDeparture(g, door) ==
    [g EXCEPT !.source_door_level_number = S8(g.current_level_number),
              !.source_door_stage_number = S8(g.current_stage_number),
              !.current_stage_number = door.target_stage,
              !.current_level_number = door.target_level]

\* a choice of loader that never takes the full level load
DoorLoad_stage_only(g, door) ==
    IF ~DoorTargetValid(door) THEN "none" ELSE "stage"

\* activate_door(door): the loader it calls, "level" for load_new_level(),
\* "stage" for load_new_stage(), "none" when it returns on an invalid target
DoorLoad(g, door) ==
    IF ~DoorTargetValid(door) THEN "none"
    ELSE IF door.target_level # S8(g.current_level_number) THEN "level"
    ELSE "stage"

\* activate_door(door)
activate_door(g, door, tiles_ok) ==
    IF DoorLoad(g, door) = "none" THEN g
    ELSE IF DoorLoad(g, door) = "level"
    THEN load_new_level(DoorDeparture(g, door), tiles_ok)
    ELSE load_new_stage(DoorDeparture(g, door), tiles_ok)

\* check_door_activation(): the state it leaves (its return value is 1
\* exactly when ActivatedDoor(g) >= 0)
check_door_activation(g, tiles_ok) ==
    LET i == ActivatedDoor(g)
    IN IF i < 0 THEN g
       ELSE activate_door(g,
                LevelAt(g.current_level_ptr).stages[g.current_stage_number].doors[i],
                tiles_ok)

\* check_door_activation(): its return value
check_door_activation_result(g) == IF ActivatedDoor(g) < 0 THEN 0 ELSE 1

\* variant: the door check runs whenever open is down
process_door_input_level(g, tiles_ok) ==
    LET g1 == IF g.comic_is_falling_or_jumping = 0 /\ g.key_state_open # 0
              THEN check_door_activation(g, tiles_ok)
              ELSE g
    IN [g1 EXCEPT !.previous_key_state_open = g.key_state_open]

\* process_door_input()
process_door_input(g, tiles_ok) ==
    LET g1 == IF /\ g.comic_is_falling_or_jumping = 0
                 /\ g.key_state_open # 0
                 /\ g.previous_key_state_open = 0
              THEN check_door_activation(g, tiles_ok)
              ELSE g
    IN [g1 EXCEPT !.previous_key_state_open = g.key_state_open]

\* the globals of main.cpp and the statics of physics.cpp and
\* level_loader.cpp at program start
InitialGlobals ==
    [comic_x |-> 20, comic_y |-> 2, comic_y_vel |-> 0, comic_x_momentum |-> 0,
     comic_facing |-> 1, comic_is_falling_or_jumping |-> 1,
     comic_jump_counter |-> 0, comic_jump_power |-> JUMP_POWER_DEFAULT,
     key_state_jump |-> 0, previous_key_state_jump |-> 0,
     key_state_left |-> 0, key_state_right |-> 0,
     key_state_open |-> 0, previous_key_state_open |-> 0,
     camera_x |-> 0, comic_has_door_key |-> 0,
     current_level_number |-> 1, current_stage_number |-> 0,
     current_level_ptr |-> -1,
     source_door_level_number |-> -1, source_door_stage_number |-> -1,
     comic_y_checkpoint |-> 12, comic_x_checkpoint |-> 14,
     current_tiles |-> "empty", tileset_last_passable |-> 63,
     ceiling_stick_flag |-> FALSE, levels_initialized |-> FALSE]

\* init_test_level()
init_test_level(g) ==
    [g EXCEPT !.current_tiles = "test", !.tileset_last_passable = 62]

\* reset_physics_state() of the tests
reset_physics_state(g) ==
    [init_test_level(g) EXCEPT
        !.comic_x = 4, !.comic_y = 14, !.comic_y_vel = 0, !.comic_x_momentum = 0,
        !.comic_facing = 1, !.comic_is_falling_or_jumping = 0,
        !.comic_jump_power = JUMP_POWER_DEFAULT,
        !.comic_jump_counter = JUMP_POWER_DEFAULT,
        !.key_state_jump = 0, !.previous_key_state_jump = 0,
        !.key_state_left = 0, !.key_state_right = 0, !.camera_x = 0]

\* reset_door_state() of the tests
reset_door_state(g) ==
    [g EXCEPT !.comic_has_door_key = 0, !.key_state_open = 0,
              !.current_level_number = 1, !.current_stage_number = 0,
              !.current_level_ptr = -1,
              !.source_door_level_number = -1, !.source_door_stage_number = -1]

(***************************************************************************)
(* Actor system: one enemy slot is the record                              *)
(*   [y, x, x_vel, y_vel, timer, nframes, behavior, state, facing,         *)
(*    restraint, anim]                                                     *)
(* where timer is spawn_timer_and_animation, nframes is                    *)
(* num_animation_frames and anim says whether animation_data is non-null.  *)
(* sys = [enemies, spawned_this_tick, spawn_offset_cycle, cycle] is the    *)
(* part of the ActorSystem a tick changes slot by slot; cycle is           *)
(* enemy_respawn_counter_cycle.                                            *)
(***************************************************************************)
Slots == 0..(MAX_NUM_ENEMIES - 1)

\* an enemy_t as the constructor leaves it (value-initialised, then
\* state and timer assigned)
ConstructedEnemy ==
    [y |-> 0, x |-> 0, x_vel |-> 0, y_vel |-> 0, timer |-> 100, nframes |-> 0,
     behavior |-> 0, state |-> ENEMY_STATE_DESPAWNED, facing |-> 0,
     restraint |-> 0, anim |-> FALSE]

\* ActorSystem::update_enemy_animation
update_enemy_animation(e) ==
    IF e.nframes = 0 THEN e
    ELSE LET t == U8(e.timer + 1)
         IN [e EXCEPT !.timer = IF t >= e.nframes THEN 0 ELSE t]

\* variant: the radius itself already despawns
check_enemy_despawn_inclusive(e, c, cycle) ==
    LET x_diff == e.x - c.cx
    IN IF x_diff <= -ENEMY_DESPAWN_RADIUS \/ x_diff >= ENEMY_DESPAWN_RADIUS
       THEN [e EXCEPT !.state = ENEMY_STATE_DESPAWNED, !.timer = cycle]
       ELSE e

\* ActorSystem::check_enemy_despawn
check_enemy_despawn(e, c, cycle) ==
    LET x_diff == e.x - c.cx
    IN IF x_diff < -ENEMY_DESPAWN_RADIUS \/ x_diff > ENEMY_DESPAWN_RADIUS
       THEN [e EXCEPT !.state = ENEMY_STATE_DESPAWNED, !.timer = cycle]
       ELSE e

\* variant: an enemy level with the player does not collide
check_enemy_player_collision_above_only(e, c) ==
    LET x_diff == e.x - c.cx
        y_diff == e.y - c.cy
    IN IF x_diff >= -1 /\ x_diff <= 1 /\ y_diff > 0 /\ y_diff < 4
       THEN [e EXCEPT !.state = ENEMY_STATE_RED_SPARK]
       ELSE e

\* ActorSystem::check_enemy_player_collision
check_enemy_player_collision(e, c) ==
    LET x_diff == e.x - c.cx
        y_diff == e.y - c.cy
    IN IF x_diff >= -1 /\ x_diff <= 1 /\ y_diff >= 0 /\ y_diff < 4
       THEN [e EXCEPT !.state = ENEMY_STATE_RED_SPARK]
       ELSE e

\* the spawn_offset_cycle step of maybe_spawn_enemy
NextSpawnOffset(off) ==
    LET o == U8(off + 2)
    IN IF o >= PLAYFIELD_WIDTH + 7 THEN PLAYFIELD_WIDTH ELSE o

\* spawn x of maybe_spawn_enemy, clamped to the uint8_t range
SpawnX(c, off) ==
    LET spawn_x_temp == IF c.cf = COMIC_FACING_RIGHT
                        THEN c.cam + off
                        ELSE c.cam - (off - PLAYFIELD_WIDTH + 2)
    IN IF spawn_x_temp < 0 THEN 0
       ELSE IF spawn_x_temp > 255 THEN 255 ELSE spawn_x_temp

\* spawn y of maybe_spawn_enemy: at most two probes upward from the player
SpawnY(c, spawn_x) ==
    IF ~ActorTileSolid(c, ActorTileAt(c, spawn_x, c.cy)) THEN c.cy
    ELSE LET y1 == U8(c.cy - 1)
         IN IF ~ActorTileSolid(c, ActorTileAt(c, spawn_x, y1)) THEN y1
            ELSE U8(y1 - 1)

\* variant: the gate never closes
SpawnGateClosed_open(sys) == FALSE

\* the one-spawn-per-tick gate at the top of maybe_spawn_enemy
SpawnGateClosed(sys) == sys.spawned_this_tick # 0

\* ActorSystem::maybe_spawn_enemy(enemy_index)
maybe_spawn_enemy(sys, i, c) ==
    IF SpawnGateClosed(sys) THEN sys
    ELSE LET e == sys.enemies[i]
         IN IF BehaviorType(e.behavior) >= ENEMY_BEHAVIOR_UNUSED
            THEN [sys EXCEPT !.enemies[i] =
                     [e EXCEPT !.state = ENEMY_STATE_DESPAWNED, !.timer = 100]]
            ELSE LET off == NextSpawnOffset(sys.spawn_offset_cycle)
                     spawn_x == SpawnX(c, off)
                     spawn_y == SpawnY(c, spawn_x)
                     moving == BehaviorType(e.behavior) \in
                                   {ENEMY_BEHAVIOR_BOUNCE, ENEMY_BEHAVIOR_SHY}
                 IN [sys EXCEPT
                       !.spawn_offset_cycle = off,
                       !.spawned_this_tick = 1,
                       !.enemies[i] =
                           [e EXCEPT !.x = spawn_x, !.y = spawn_y,
                                     !.state = ENEMY_STATE_SPAWNED,
                                     !.timer = 0,
                                     !.x_vel = IF moving THEN -1 ELSE 0,
                                     !.y_vel = IF moving THEN -1 ELSE 0,
                                     !.facing = ENEMY_FACING_LEFT,
                                     !.restraint = IF IsFast(e.behavior)
                                                   THEN ENEMY_RESTRAINT_MOVE_EVERY_TICK
                                                   ELSE ENEMY_RESTRAINT_MOVE_THIS_TICK]]

\* variant: the cycle wraps on reaching the maximum
NextRespawnCycle_early(cycle) ==
    LET n == U8(cycle + RESPAWN_TIMER_STEP)
    IN IF n >= RESPAWN_TIMER_MAX THEN RESPAWN_TIMER_MIN ELSE n

\* the respawn-cycle step taken when a death animation completes
NextRespawnCycle(cycle) ==
    LET n == U8(cycle + RESPAWN_TIMER_STEP)
    IN IF n > RESPAWN_TIMER_MAX THEN RESPAWN_TIMER_MIN ELSE n

\* variant: only the red-spark animation ends at its sixth frame
IsLastDeathFrame_red_only(st) ==
    st = ENEMY_STATE_RED_SPARK + DEATH_ANIMATION_LAST_FRAME

\* is this state the last frame of a death animation
IsLastDeathFrame(st) ==
    \/ st = ENEMY_STATE_WHITE_SPARK + DEATH_ANIMATION_LAST_FRAME
    \/ st = ENEMY_STATE_RED_SPARK + DEATH_ANIMATION_LAST_FRAME

\* variant: collision is tested before the behaviour step
SpawnedStep_collide_first(e, c, cycle) ==
    LET e1 == check_enemy_player_collision(update_enemy_animation(e), c)
    IN IF e1.state = ENEMY_STATE_RED_SPARK THEN e1
       ELSE check_enemy_despawn(handle_single_enemy(e1, c), c, cycle)

\* the four calls made for a spawned slot in update()
SpawnedStep(e, c, cycle) ==
    check_enemy_player_collision(
        check_enemy_despawn(
            handle_single_enemy(update_enemy_animation(e), c), c, cycle), c)

\* variant: the spawn timer of a despawned slot is decremented without
\* looking at its value
UpdateSlot_underflow(sys, i, c) ==
    LET e == sys.enemies[i]
    IN IF e.state = ENEMY_STATE_DESPAWNED
       THEN LET t == U8(e.timer - 1)
                sys1 == [sys EXCEPT !.enemies[i].timer = t]
            IN IF t = 0 THEN maybe_spawn_enemy(sys1, i, c) ELSE sys1
       ELSE IF e.state >= ENEMY_STATE_WHITE_SPARK
       THEN IF IsLastDeathFrame(e.state)
            THEN [sys EXCEPT !.enemies[i].state = ENEMY_STATE_DESPAWNED,
                             !.enemies[i].timer = sys.cycle,
                             !.cycle = NextRespawnCycle(sys.cycle)]
            ELSE [sys EXCEPT !.enemies[i].state = U8(e.state + 1)]
       ELSE [sys EXCEPT !.enemies[i] = SpawnedStep(e, c, sys.cycle)]

\* body of the slot loop of ActorSystem::update for slot i
UpdateSlot(sys, i, c) ==
    LET e == sys.enemies[i]
    IN IF e.state = ENEMY_STATE_DESPAWNED
       THEN LET t == IF e.timer > 0 THEN e.timer - 1 ELSE e.timer
                sys1 == [sys EXCEPT !.enemies[i].timer = t]
            IN IF t = 0 THEN maybe_spawn_enemy(sys1, i, c) ELSE sys1
       ELSE IF e.state >= ENEMY_STATE_WHITE_SPARK
       THEN IF IsLastDeathFrame(e.state)
            THEN [sys EXCEPT !.enemies[i].state = ENEMY_STATE_DESPAWNED,
                             !.enemies[i].timer = sys.cycle,
                             !.cycle = NextRespawnCycle(sys.cycle)]
            ELSE [sys EXCEPT !.enemies[i].state = U8(e.state + 1)]
       ELSE [sys EXCEPT !.enemies[i] = SpawnedStep(e, c, sys.cycle)]

\* the slot loop of ActorSystem::update, from slot i on
RECURSIVE UpdateFrom(_, _, _)
UpdateFrom(sys, i, c) ==
    IF i >= MAX_NUM_ENEMIES THEN sys
    ELSE UpdateFrom(UpdateSlot(sys, i, c), i + 1, c)

\* a reset that leaves spawned enemies alone
reset_for_stage_keeps_spawned(es, cycle) ==
    [i \in Slots |-> IF es[i].state = ENEMY_STATE_SPAWNED THEN es[i]
                     ELSE [es[i] EXCEPT !.state = ENEMY_STATE_DESPAWNED,
                                        !.timer = cycle]]

\* ActorSystem::reset_for_stage applied to the enemy array
reset_for_stage(es, cycle) ==
    [i \in Slots |-> [es[i] EXCEPT !.state = ENEMY_STATE_DESPAWNED, !.timer = cycle]]

\* one iteration of the slot loop of setup_enemies_for_stage; frames is
\* what load_enemy_sprite returned for the record's sprite: -1 for a null
\* pointer, otherwise the size of frame_sequence
SetupSlot(e, level, record, frames) ==
    IF BehaviorType(record.behavior) >= ENEMY_BEHAVIOR_UNUSED
    THEN [e EXCEPT !.state = ENEMY_STATE_DESPAWNED, !.timer = 100, !.anim = FALSE]
    ELSE IF record.shp_index >= 4
    THEN [e EXCEPT !.state = ENEMY_STATE_DESPAWNED, !.timer = 100, !.anim = FALSE]
    ELSE LET e1 == [e EXCEPT !.nframes = level.shp[record.shp_index],
                             !.behavior = record.behavior]
         IN IF frames < 0
            THEN [e1 EXCEPT !.state = ENEMY_STATE_DESPAWNED, !.anim = FALSE]
            ELSE IF U8(frames) = 0
            THEN [e1 EXCEPT !.nframes = 0, !.state = ENEMY_STATE_DESPAWNED,
                            !.anim = FALSE]
            ELSE [e1 EXCEPT !.nframes = U8(frames), !.anim = TRUE,
                            !.x_vel = 0, !.y_vel = 0,
                            !.facing = ENEMY_FACING_LEFT,
                            !.restraint = ENEMY_RESTRAINT_MOVE_THIS_TICK]

\* ActorSystem::setup_enemies_for_stage applied to the enemy array;
\* gfx[k] is the result of load_enemy_sprite for level.shp[k]
setup_enemies_for_stage(es, level, stage_number, gfx, cycle) ==
    LET stage == level.stages[stage_number]
        es1 == [i \in Slots |->
                  LET record == stage.enemies[i]
                  IN SetupSlot(es[i], level, record,
                               IF record.shp_index < 4 THEN gfx[record.shp_index] ELSE -1)]
    IN reset_for_stage(es1, cycle)

\* the slots that setup_enemies_for_stage gives up on: the spawn record is
\* unused, its sprite index is out of range, or its sprite fails to load or
\* has no frames
SetupGivenUp(level, stage_number, gfx) ==
    {i \in Slots :
        LET record == level.stages[stage_number].enemies[i]
        IN \/ BehaviorType(record.behavior) >= ENEMY_BEHAVIOR_UNUSED
           \/ record.shp_index >= 4
           \/ gfx[record.shp_index] < 0
           \/ U8(gfx[record.shp_index]) = 0}

(***************************************************************************)
(* State of the ActorSystem object, plus stage_tiles (the tile array of    *)
(* the stage that was set up, which callers hand to update) and three      *)
(* history variables: ticks (update calls so far), enemies_before (the     *)
(* enemy array at the start of the last update call) and red_age (per      *)
(* slot, the update calls since the slot entered the first red-spark       *)
(* frame, -1 when it is not in a red-spark animation that began in a       *)
(* tick), and setup_failed (the slots the last stage setup gave up on).    *)
(*                                                                         *)
(* game is the record g described above.  jump_log, door_log and pticks    *)
(* are history variables of the player: the jump in progress (launch       *)
(* height, lowest y so far, whether jump was held with no horizontal       *)
(* input, whether the descent has begun, whether the last tick's jump      *)
(* input sent the player into the air, whether the last tick began         *)
(* Grounded with jump held before and during it, whether there has been   *)
(* an Airborne tick with no Grounded tick with jump released after it,     *)
(* how many Airborne phases have begun, counted up to two), the door       *)
(* calls (how many, the level, stage and slot of the last one, its return  *)
(* value, the loader it called and the source-door marker at that moment,  *)
(* whether its stage tiles loaded, whether the player has been placed      *)
(* elsewhere since, the same for the call before it when the two followed  *)
(* each other directly, and how many direct calls of load_new_stage there  *)
(* have been) and the number of player ticks taken.                        *)
(***************************************************************************)
VARIABLES game, jump_log, door_log, pticks

playerVars == <<game, jump_log, door_log, pticks>>

VARIABLES enemies, actor_tileset_last_passable, actor_current_tiles,
          spawned_this_tick, spawn_offset_cycle, enemy_respawn_counter_cycle,
          g_comic_x, g_comic_y, g_comic_facing, g_camera_x,
          stage_tiles, ticks, enemies_before, red_age, setup_failed

actorVars == <<enemies, actor_tileset_last_passable, actor_current_tiles,
               spawned_this_tick, spawn_offset_cycle, enemy_respawn_counter_cycle,
               g_comic_x, g_comic_y, g_comic_facing, g_camera_x,
               stage_tiles, ticks, enemies_before, red_age, setup_failed>>

vars == <<actorVars, playerVars>>

\* no jump and no door call recorded yet
NoJump == [active |-> FALSE, launch_y |-> 0, min_y |-> 0, clean |-> FALSE,
           descended |-> FALSE, launched |-> FALSE, held |-> FALSE,
           since_air |-> FALSE, air_phases |-> 0]
NoDoorCall == [calls |-> 0, fresh |-> FALSE, tiles_ok |-> FALSE,
               slot |-> -1, ptr |-> -1, level |-> -1, stage |-> -1,
               ret |-> 0, load |-> "none", m_level |-> -1, m_stage |-> -1,
               loads |-> 0,
               o_slot |-> -1, o_ptr |-> -1, o_level |-> -1, o_stage |-> -1]

\* the player side at program start
PlayerStart ==
    /\ game = InitialGlobals
    /\ jump_log = NoJump
    /\ door_log = NoDoorCall
    /\ pticks = 0

\* number of update calls explored in a run from construction
MaxTicks == 58

\* in a run from construction a stage is set up or reset only before
\* every StagePeriod-th update call
StagePeriod == 8

\* number of update calls explored from an arranged test fixture
MaxFixtureTicks == 2

\* sprite loading results per sprite index (load_enemy_sprite): every sprite
\* loads with two frames / sprite 0 fails to load / sprite 1 has no frames
GfxLoaded == [k \in 0..3 |-> 2]
GfxSprite0Missing == [k \in 0..3 |-> IF k = 0 THEN -1 ELSE 2]
GfxSprite1Empty == [k \in 0..3 |-> IF k = 1 THEN 0 ELSE 2]

\* arguments explored for setup_enemies_for_stage, with the tile array of
\* that stage: level number (-1 is the null pointer), stage number (3 is
\* out of range), sprite loading results, tiles
SetupInputs ==
    {<<6, 2, GfxLoaded, "empty">>,
     <<3, 0, GfxSprite0Missing, "test">>,
     <<1, 0, GfxSprite1Empty, "test">>,
     <<6, 3, GfxLoaded, "test">>,
     <<-1, 0, GfxLoaded, "test">>}

\* player arguments of update() in a run from construction: the player
\* stands where the first enemy spawns
PlayerInputs ==
    [x : {26}, y : {10}, facing : {COMIC_FACING_RIGHT}, cam : {0}]

\* player arguments of update() in a test fixture (reset_actor_state puts
\* the player at (10, 10); a second position 31 units to the right)
FixturePlayers ==
    {[x |-> 10, y |-> 10, facing |-> COMIC_FACING_RIGHT, cam |-> 0],
     [x |-> 41, y |-> 10, facing |-> COMIC_FACING_LEFT, cam |-> 0]}

\* ActorSystem::ActorSystem()
ActorConstructed ==
    /\ enemies = [i \in Slots |-> ConstructedEnemy]
    /\ actor_tileset_last_passable = 62
    /\ actor_current_tiles = "null"
    /\ spawned_this_tick = 0
    /\ spawn_offset_cycle = PLAYFIELD_WIDTH
    /\ enemy_respawn_counter_cycle = RESPAWN_TIMER_MIN
    /\ g_comic_x = 0
    /\ g_comic_y = 0
    /\ g_comic_facing = COMIC_FACING_LEFT
    /\ g_camera_x = 0
    /\ stage_tiles = "null"
    /\ ticks = 0
    /\ enemies_before = enemies
    /\ red_age = [i \in Slots |-> -1]
    /\ setup_failed = {}

\* ActorSystem::setup_enemies_for_stage(level, stage_number, graphics_system)
ActorSetupStage ==
    \E su \in SetupInputs :
        /\ ticks % StagePeriod = 0
        /\ IF su[1] < 0 \/ su[2] < 0 \/ su[2] >= 3
           THEN UNCHANGED vars
           ELSE LET level == source_levels[su[1]]
                IN /\ actor_tileset_last_passable' = level.tileset_last_passable
                   /\ enemies' = setup_enemies_for_stage(enemies, level, su[2], su[3],
                                                         enemy_respawn_counter_cycle)
                   /\ spawned_this_tick' = 0
                   /\ stage_tiles' = su[4]
                   /\ red_age' = [i \in Slots |-> -1]
                   /\ setup_failed' = SetupGivenUp(level, su[2], su[3])
                   /\ UNCHANGED <<actor_current_tiles, spawn_offset_cycle,
                                  enemy_respawn_counter_cycle,
                                  g_comic_x, g_comic_y, g_comic_facing, g_camera_x,
                                  ticks, enemies_before>>
                   /\ UNCHANGED playerVars

\* ActorSystem::reset_for_stage(), whenever a test calls it
ResetForStage ==
    /\ enemies' = reset_for_stage(enemies, enemy_respawn_counter_cycle)
    /\ spawned_this_tick' = 0
    /\ red_age' = [i \in Slots |-> -1]
    /\ UNCHANGED <<actor_tileset_last_passable, actor_current_tiles,
                   spawn_offset_cycle, enemy_respawn_counter_cycle,
                   g_comic_x, g_comic_y, g_comic_facing, g_camera_x,
                   stage_tiles, ticks, enemies_before, setup_failed>>
    /\ UNCHANGED playerVars

\* ActorSystem::reset_for_stage() in a run from construction
ActorResetForStage ==
    /\ ticks % StagePeriod = 0
    /\ ResetForStage

\* the tick context update() stores before the slot loop
TickContext(p) ==
    [cx |-> p.x, cy |-> p.y, cf |-> p.facing, cam |-> p.cam,
     tiles |-> stage_tiles, lp |-> actor_tileset_last_passable]

\* the system after update() with player arguments p
Updated(p) ==
    UpdateFrom([enemies |-> enemies, spawned_this_tick |-> 0,
                spawn_offset_cycle |-> spawn_offset_cycle,
                cycle |-> enemy_respawn_counter_cycle], 0, TickContext(p))

\* ActorSystem::update(comic_x, comic_y, comic_facing, tiles, camera_x)
\* called with player arguments p and the tiles of the current stage
UpdateWith(p) ==
    LET sys == Updated(p)
    IN /\ g_comic_x' = p.x
       /\ g_comic_y' = p.y
       /\ g_comic_facing' = p.facing
       /\ g_camera_x' = p.cam
       /\ actor_current_tiles' = stage_tiles
       /\ enemies' = sys.enemies
       /\ spawned_this_tick' = sys.spawned_this_tick
       /\ spawn_offset_cycle' = sys.spawn_offset_cycle
       /\ enemy_respawn_counter_cycle' = sys.cycle
       /\ ticks' = ticks + 1
       /\ enemies_before' = enemies
       /\ red_age' = [i \in Slots |->
                        IF enemies[i].state = ENEMY_STATE_SPAWNED
                           /\ sys.enemies[i].state = ENEMY_STATE_RED_SPARK
                        THEN 0
                        ELSE IF red_age[i] \in 0..5 THEN red_age[i] + 1
                        ELSE -1]
       /\ UNCHANGED <<actor_tileset_last_passable, stage_tiles, setup_failed>>
       /\ UNCHANGED playerVars

\* one game tick of the actor system in a run from construction
ActorUpdate ==
    /\ ticks < MaxTicks
    /\ \E p \in PlayerInputs : UpdateWith(p)

Init == ActorConstructed /\ PlayerStart

Next ==
    \/ ActorSetupStage
    \/ ActorResetForStage
    \/ ActorUpdate

Spec == Init /\ [][Next]_vars

(***************************************************************************)
(* Test fixture (tests/test_main.cpp): the actor tests construct a system, *)
(* call reset_for_stage, write enemy slots directly and then call update.  *)
(***************************************************************************)
\* a slot after reset_actor_state that the test does not touch
UntouchedEnemy == [ConstructedEnemy EXCEPT !.timer = RESPAWN_TIMER_MIN]

\* setup_test_enemy(enemies, index, behavior): ready to spawn
ReadyEnemy(behavior) ==
    [y |-> 0, x |-> 0, x_vel |-> 0, y_vel |-> 0, timer |-> 0, nframes |-> 2,
     behavior |-> behavior, state |-> ENEMY_STATE_DESPAWNED,
     facing |-> ENEMY_FACING_LEFT,
     restraint |-> IF IsFast(behavior) THEN ENEMY_RESTRAINT_MOVE_EVERY_TICK
                   ELSE ENEMY_RESTRAINT_MOVE_THIS_TICK,
     anim |-> FALSE]

\* setup_test_enemy followed by the direct writes of the tests:
\* state, position and velocity
PlacedEnemy(behavior, state, x, y, v) ==
    [ReadyEnemy(behavior) EXCEPT !.state = state, !.x = x, !.y = y,
                                 !.x_vel = v[1], !.y_vel = v[2]]

\* behaviours, positions and velocities the fixture places an enemy with
FixtureBehaviors ==
    {ENEMY_BEHAVIOR_BOUNCE, ENEMY_BEHAVIOR_LEAP, ENEMY_BEHAVIOR_ROLL,
     ENEMY_BEHAVIOR_SEEK, ENEMY_BEHAVIOR_SHY,
     ENEMY_BEHAVIOR_BOUNCE + ENEMY_BEHAVIOR_FAST}
FixtureXs == {9, 10, 11, 12, 40, 41, 42}
FixtureYs == {9, 10, 13, 14}
FixtureVels == {<<0, 0>>, <<1, -1>>, <<-1, -1>>}

\* the enemy under test (slot 1): spawned somewhere, ready to spawn, or dying
FixtureRich ==
    {PlacedEnemy(b, ENEMY_STATE_SPAWNED, x, y, v) :
        b \in FixtureBehaviors, x \in FixtureXs, y \in FixtureYs, v \in FixtureVels}
    \cup {ReadyEnemy(b) : b \in FixtureBehaviors}
    \cup {PlacedEnemy(ENEMY_BEHAVIOR_BOUNCE, st, 0, 0, <<0, 0>>) :
            st \in {ENEMY_STATE_RED_SPARK,
                    ENEMY_STATE_RED_SPARK + DEATH_ANIMATION_LAST_FRAME}}

\* the slot before it (slot 0)
FixtureLow ==
    {UntouchedEnemy, ReadyEnemy(ENEMY_BEHAVIOR_BOUNCE),
     PlacedEnemy(ENEMY_BEHAVIOR_BOUNCE, ENEMY_STATE_RED_SPARK, 0, 0, <<0, 0>>),
     PlacedEnemy(ENEMY_BEHAVIOR_BOUNCE,
                 ENEMY_STATE_RED_SPARK + DEATH_ANIMATION_LAST_FRAME, 0, 0, <<0, 0>>)}

\* the slot after it (slot 2); slot 3 is never touched
FixtureHigh == {UntouchedEnemy, ReadyEnemy(ENEMY_BEHAVIOR_BOUNCE)}

\* ActorSystem(); reset_actor_state(); then the direct writes of a test
FixtureInit ==
    /\ \E a \in FixtureLow, b \in FixtureRich, c2 \in FixtureHigh :
           enemies = Arr(<<a, b, c2, UntouchedEnemy>>)
    /\ actor_tileset_last_passable = 62
    /\ actor_current_tiles = "null"
    /\ spawned_this_tick = 0
    /\ spawn_offset_cycle = PLAYFIELD_WIDTH
    /\ enemy_respawn_counter_cycle = RESPAWN_TIMER_MIN
    /\ g_comic_x = 0
    /\ g_comic_y = 0
    /\ g_comic_facing = COMIC_FACING_LEFT
    /\ g_camera_x = 0
    /\ stage_tiles \in {"empty", "test"}
    /\ ticks = 0
    /\ enemies_before = enemies
    /\ red_age = [i \in Slots |-> -1]
    /\ setup_failed = {}
    /\ PlayerStart

\* actor_system.update(comic_x, comic_y, comic_facing, tiles, camera_x)
\* as the tests call it
FixtureUpdate ==
    /\ ticks < MaxFixtureTicks
    /\ \E p \in FixturePlayers : UpdateWith(p)

FixtureNext ==
    \/ FixtureUpdate
    \/ ResetForStage

SpecFixture == FixtureInit /\ [][FixtureNext]_vars

(***************************************************************************)
(* Physics test fixture (tests/test_main.cpp): reset_physics_state() on    *)
(* the test level, then simulate_tick() with the keys the test sets.       *)
(***************************************************************************)
\* number of simulate_tick calls explored
MaxPlayerTicks == 15

\* standing positions the fixture starts from: the floor, the platform,
\* the top of the left wall
PhysicsStarts == {<<4, 14>>, <<34, 10>>, <<20, 6>>}

\* key states a test sets before a tick: jump, left, right
KeyInputs ==
    {[jump |-> 0, left |-> 0, right |-> 0], [jump |-> 1, left |-> 0, right |-> 0],
     [jump |-> 1, left |-> 1, right |-> 0], [jump |-> 0, left |-> 0, right |-> 1]}

PhysicsInit ==
    /\ ActorConstructed
    /\ \E st \in PhysicsStarts, power \in {JUMP_POWER_DEFAULT, JUMP_POWER_WITH_BOOTS} :
          game = [reset_door_state(reset_physics_state(InitialGlobals)) EXCEPT
                     !.comic_x = st[1], !.comic_y = st[2],
                     !.comic_jump_power = power, !.comic_jump_counter = power]
    /\ jump_log = NoJump
    /\ door_log = NoDoorCall
    /\ pticks = 0

\* the smaller of two numbers
Min(a, b) == IF a < b THEN a ELSE b

\* the jump history after a tick that took the player from g0 (keys k
\* applied) through process_jump_input (g1) to g2
JumpLogAfter(g0, g1, g2, k) ==
    LET horizontal == k.left # 0 \/ k.right # 0
        descending == g2.comic_y > g0.comic_y \/ g2.comic_is_falling_or_jumping = 0
        held == /\ game.comic_is_falling_or_jumping = 0
                /\ game.key_state_jump # 0
                /\ k.jump # 0
        since_air == IF g1.comic_is_falling_or_jumping # 0 THEN TRUE
                     ELSE IF k.jump = 0 THEN FALSE
                     ELSE jump_log.since_air
        air_phases == IF /\ game.comic_is_falling_or_jumping = 0
                         /\ g2.comic_is_falling_or_jumping # 0
                      THEN Min(2, jump_log.air_phases + 1)
                      ELSE jump_log.air_phases
    IN IF g0.comic_is_falling_or_jumping = 0 /\ g1.comic_is_falling_or_jumping = 1
       THEN [active |-> TRUE, launch_y |-> g0.comic_y,
             min_y |-> Min(g0.comic_y, g2.comic_y),
             clean |-> ~horizontal, descended |-> descending,
             launched |-> TRUE, held |-> held,
             since_air |-> since_air, air_phases |-> air_phases]
       ELSE IF jump_log.active /\ ~jump_log.descended
       THEN [jump_log EXCEPT !.min_y = Min(jump_log.min_y, g2.comic_y),
                             !.clean = jump_log.clean /\ k.jump # 0 /\ ~horizontal,
                             !.descended = descending,
                             !.launched = FALSE, !.held = held,
                             !.since_air = since_air, !.air_phases = air_phases]
       ELSE [jump_log EXCEPT !.launched = FALSE, !.held = held,
                             !.since_air = since_air, !.air_phases = air_phases]

\* simulate_tick(): process_jump_input(); handle_fall_or_jump()
SimulateTick ==
    /\ pticks < MaxPlayerTicks
    /\ \E k \in KeyInputs,
          tiles_ok \in IF game.current_level_ptr < 0 THEN {TRUE} ELSE BOOLEAN :
          LET g0 == [game EXCEPT !.key_state_jump = k.jump,
                                 !.key_state_left = k.left,
                                 !.key_state_right = k.right]
              g1 == process_jump_input(g0)
              g2 == handle_fall_or_jump(g1, tiles_ok)
          IN /\ game' = g2
             /\ jump_log' = JumpLogAfter(g0, g1, g2, k)
    /\ pticks' = pticks + 1
    /\ UNCHANGED door_log
    /\ UNCHANGED actorVars

PhysicsNext == SimulateTick

SpecPhysics == PhysicsInit /\ [][PhysicsNext]_vars

(***************************************************************************)
(* Door test fixture (tests/test_main.cpp): reset_door_state(), a level    *)
(* descriptor installed in current_level_ptr, the player placed by writing *)
(* comic_x and comic_y, the key and the open input written directly, then  *)
(* check_door_activation() called.                                         *)
(***************************************************************************)
\* number of check_door_activation calls explored
MaxDoorCalls == 2

\* the level descriptors the fixture installs with their level numbers:
\* none, the two test levels, lake and base
DoorLevels == {<<-1, 1>>, <<8, 1>>, <<9, 1>>, <<0, 0>>, <<3, 3>>}

\* where the fixture puts the player: around each used door of the current
\* stage (one unit left of it to one unit right of its band, one row above
\* to one row below), or at a fixed spot when there is no stage
DoorPlacements(g) ==
    IF g.current_level_ptr < 0 \/ g.current_stage_number >= 3
    THEN {<<10, 8>>}
    ELSE LET doors == LevelAt(g.current_level_ptr).stages[g.current_stage_number].doors
         IN {<<10, 8>>} \cup
            {<<doors[i].x + dx, doors[i].y + dy>> :
                 i \in {j \in 0..(MAX_NUM_DOORS - 1) : DoorUsed(doors[j])},
                 dx \in -1..3, dy \in -1..1}

DoorsInit ==
    /\ ActorConstructed
    /\ \E lv \in DoorLevels, st \in 0..3, init \in BOOLEAN :
          game = [reset_door_state(reset_physics_state(InitialGlobals)) EXCEPT
                     !.current_level_ptr = lv[1], !.current_level_number = lv[2],
                     !.current_stage_number = st, !.levels_initialized = init,
                     !.comic_x = 10, !.comic_y = 8]
    /\ jump_log = NoJump
    /\ door_log = NoDoorCall
    /\ pticks = 0

\* comic_x = ...; comic_y = ...;
PlacePlayer ==
    /\ \E p \in DoorPlacements(game) :
          game' = [game EXCEPT !.comic_x = p[1], !.comic_y = p[2]]
    /\ door_log' = [door_log EXCEPT !.fresh = FALSE]
    /\ UNCHANGED <<jump_log, pticks>>
    /\ UNCHANGED actorVars

\* comic_has_door_key = ...; key_state_open = ...;
SetDoorInputs ==
    /\ \E key \in {0, 1}, open \in {0, 1} :
          game' = [game EXCEPT !.comic_has_door_key = key, !.key_state_open = open]
    /\ UNCHANGED <<jump_log, door_log, pticks>>
    /\ UNCHANGED actorVars

\* check_door_activation()
CallCheckDoorActivation ==
    /\ door_log.calls < MaxDoorCalls
    /\ \E tiles_ok \in BOOLEAN :
          LET chained == door_log.fresh /\ door_log.slot >= 0 /\ door_log.tiles_ok
              slot == ActivatedDoor(game)
              door == IF slot < 0 THEN Door(DOOR_UNUSED, DOOR_UNUSED, 0, DOOR_UNUSED)
                      ELSE LevelAt(game.current_level_ptr)
                               .stages[game.current_stage_number].doors[slot]
              loads == slot >= 0 /\ DoorLoad(game, door) # "none"
          IN /\ game' = check_door_activation(game, tiles_ok)
             /\ door_log' =
                   [calls |-> door_log.calls + 1, fresh |-> TRUE,
                    tiles_ok |-> tiles_ok, slot |-> ActivatedDoor(game),
                    ptr |-> game.current_level_ptr,
                    level |-> game.current_level_number,
                    stage |-> game.current_stage_number,
                    ret |-> check_door_activation_result(game),
                    loads |-> door_log.loads,
                    load |-> IF slot < 0 THEN "none" ELSE DoorLoad(game, door),
                    m_level |-> IF loads
                                THEN DoorDeparture(game, door).source_door_level_number
                                ELSE -1,
                    m_stage |-> IF loads
                                THEN DoorDeparture(game, door).source_door_stage_number
                                ELSE -1,
                    o_slot |-> IF chained THEN door_log.slot ELSE -1,
                    o_ptr |-> IF chained THEN door_log.ptr ELSE -1,
                    o_level |-> IF chained THEN door_log.level ELSE -1,
                    o_stage |-> IF chained THEN door_log.stage ELSE -1]
    /\ UNCHANGED <<jump_log, pticks>>
    /\ UNCHANGED actorVars

DoorsNext == PlacePlayer \/ SetDoorInputs \/ CallCheckDoorActivation

SpecDoors == DoorsInit /\ [][DoorsNext]_vars

(***************************************************************************)
(* The stage loader called directly, as the level tests and main() call    *)
(* the loaders: the globals are written, then load_new_stage() runs.       *)
(***************************************************************************)
\* number of load_new_stage calls explored
MaxLoads == 2

\* source-door markers the globals are given before a load
LoaderMarkers == {<<l, st>> : l \in {-1, 0, 1, 3}, st \in {-1, 0, 1, 2}}

\* player positions and vertical velocities before a load
LoaderPlayers == {<<10, 8, 0>>, <<200, 4, 5>>}

LoaderInit == DoorsInit

\* source_door_level_number = ...; source_door_stage_number = ...;
\* current_stage_number = ...; comic_x = ...; comic_y = ...;
SetSourceDoor ==
    /\ \E m \in LoaderMarkers, st \in 0..3, p \in LoaderPlayers :
          game' = [game EXCEPT !.source_door_level_number = m[1],
                               !.source_door_stage_number = m[2],
                               !.current_stage_number = st,
                               !.comic_x = p[1], !.comic_y = p[2],
                               !.comic_y_vel = p[3]]
    /\ UNCHANGED <<jump_log, door_log, pticks>>
    /\ UNCHANGED actorVars

\* load_new_stage()
CallLoadNewStage ==
    /\ door_log.loads < MaxLoads
    /\ \E tiles_ok \in BOOLEAN :
          /\ game' = load_new_stage(game, tiles_ok)
          /\ door_log' = [door_log EXCEPT !.loads = door_log.loads + 1,
                                          !.tiles_ok = tiles_ok]
    /\ UNCHANGED <<jump_log, pticks>>
    /\ UNCHANGED actorVars

LoaderNext == SetSourceDoor \/ CallLoadNewStage

SpecLoader == LoaderInit /\ [][LoaderNext]_vars

(***************************************************************************)
(* Spawning: every slot is ready to spawn and update() is called with the  *)
(* player at places the camera rules of physics.cpp allow, the two ends of *)
(* the map included.                                                       *)
(***************************************************************************)
\* number of update calls explored
MaxSpawnTicks == 4

\* behaviours the slots are set up with
SpawnBehaviors == {ENEMY_BEHAVIOR_BOUNCE, ENEMY_BEHAVIOR_SEEK}

\* player arguments of update(): at the left end of the map, in the middle
\* of it, at the right end
SpawnPlayers ==
    {[x |-> 0, y |-> 10, facing |-> COMIC_FACING_LEFT, cam |-> 0],
     [x |-> 12, y |-> 10, facing |-> COMIC_FACING_RIGHT, cam |-> 0],
     [x |-> 100, y |-> 10, facing |-> COMIC_FACING_LEFT, cam |-> 88],
     [x |-> 100, y |-> 10, facing |-> COMIC_FACING_RIGHT, cam |-> 88],
     [x |-> 254, y |-> 10, facing |-> COMIC_FACING_RIGHT, cam |-> 232]}

\* ActorSystem(); reset_actor_state(); setup_test_enemy for every slot
SpawnInit ==
    /\ \E b \in [Slots -> SpawnBehaviors] :
           enemies = [i \in Slots |-> ReadyEnemy(b[i])]
    /\ actor_tileset_last_passable = 62
    /\ actor_current_tiles = "null"
    /\ spawned_this_tick = 0
    /\ spawn_offset_cycle = PLAYFIELD_WIDTH
    /\ enemy_respawn_counter_cycle = RESPAWN_TIMER_MIN
    /\ g_comic_x = 0
    /\ g_comic_y = 0
    /\ g_comic_facing = COMIC_FACING_LEFT
    /\ g_camera_x = 0
    /\ stage_tiles = "empty"
    /\ ticks = 0
    /\ enemies_before = enemies
    /\ red_age = [i \in Slots |-> -1]
    /\ setup_failed = {}
    /\ PlayerStart

\* actor_system.update(comic_x, comic_y, comic_facing, tiles, camera_x)
SpawnUpdate ==
    /\ ticks < MaxSpawnTicks
    /\ \E p \in SpawnPlayers : UpdateWith(p)

SpawnNext == SpawnUpdate

SpecSpawn == SpawnInit /\ [][SpawnNext]_vars

(***************************************************************************)
(* Leap and Roll: one enemy is placed on the ground or in mid-fall and     *)
(* update() is called with the player beside it, far from it, or falling   *)
(* next to it.                                                             *)
(***************************************************************************)
\* number of update calls explored
MaxLeapTicks == 8

\* where a Leap enemy is placed: standing at floor height, falling just
\* above the floor after a hop, falling fast from the top of the stage
LeapStarts ==
    {<<12, 16, <<0, 0>> >>, <<13, 13, <<-1, 11>> >>, <<12, 4, <<1, 16>> >>}

\* where a Roll enemy is placed: at floor height, falling
RollStarts == {<<12, 16, <<0, 0>> >>, <<12, 10, <<0, 1>> >>}

\* the enemy under test (slot 0)
LeapEnemies ==
    {PlacedEnemy(b, ENEMY_STATE_SPAWNED, st[1], st[2], st[3]) :
        b \in {ENEMY_BEHAVIOR_LEAP, ENEMY_BEHAVIOR_LEAP + ENEMY_BEHAVIOR_FAST},
        st \in LeapStarts}
    \cup {PlacedEnemy(ENEMY_BEHAVIOR_ROLL, ENEMY_STATE_SPAWNED, st[1], st[2], st[3]) :
            st \in RollStarts}

\* player arguments of update(): standing on the floor beside the enemy,
\* standing far to the right, falling past the floor line beside the enemy
LeapPlayers ==
    {[x |-> 10, y |-> 14, facing |-> COMIC_FACING_RIGHT, cam |-> 0],
     [x |-> 60, y |-> 14, facing |-> COMIC_FACING_LEFT, cam |-> 48],
     [x |-> 12, y |-> 16, facing |-> COMIC_FACING_RIGHT, cam |-> 0]}

\* ActorSystem(); reset_actor_state(); then the direct writes of a test
LeapInit ==
    /\ \E e \in LeapEnemies :
           enemies = Arr(<<e, UntouchedEnemy, UntouchedEnemy, UntouchedEnemy>>)
    /\ actor_tileset_last_passable = 62
    /\ actor_current_tiles = "null"
    /\ spawned_this_tick = 0
    /\ spawn_offset_cycle = PLAYFIELD_WIDTH
    /\ enemy_respawn_counter_cycle = RESPAWN_TIMER_MIN
    /\ g_comic_x = 0
    /\ g_comic_y = 0
    /\ g_comic_facing = COMIC_FACING_LEFT
    /\ g_camera_x = 0
    /\ stage_tiles \in {"empty", "test"}
    /\ ticks = 0
    /\ enemies_before = enemies
    /\ red_age = [i \in Slots |-> -1]
    /\ setup_failed = {}
    /\ PlayerStart

\* actor_system.update(comic_x, comic_y, comic_facing, tiles, camera_x)
LeapUpdate ==
    /\ ticks < MaxLeapTicks
    /\ \E p \in LeapPlayers : UpdateWith(p)

LeapNext == LeapUpdate

SpecLeap == LeapInit /\ [][LeapNext]_vars

(***************************************************************************)
(* Level loads as the solidity tests make them: the level number is        *)
(* written, then load_new_level() runs.                                    *)
(***************************************************************************)
\* number of load_new_level calls explored
MaxLevelLoads == 3

\* level numbers a test writes: the eight levels and one past them
LevelNumbers == 0..8

LevelsInit ==
    /\ ActorConstructed
    /\ \E init \in BOOLEAN, test \in BOOLEAN :
          game = [(IF test THEN init_test_level(InitialGlobals) ELSE InitialGlobals)
                  EXCEPT !.levels_initialized = init]
    /\ jump_log = NoJump
    /\ door_log = NoDoorCall
    /\ pticks = 0

\* current_level_number = ...; current_stage_number = 0;
\* source_door_level_number = -1; source_door_stage_number = -1;
\* current_level_ptr = nullptr;
SetLevel ==
    /\ \E n \in LevelNumbers :
          game' = [game EXCEPT !.current_level_number = n,
                               !.current_stage_number = 0,
                               !.source_door_level_number = -1,
                               !.source_door_stage_number = -1,
                               !.current_level_ptr = -1]
    /\ UNCHANGED <<jump_log, door_log, pticks>>
    /\ UNCHANGED actorVars

\* load_new_level()
CallLoadNewLevel ==
    /\ door_log.loads < MaxLevelLoads
    /\ \E tiles_ok \in BOOLEAN :
          /\ game' = load_new_level(game, tiles_ok)
          /\ door_log' = [door_log EXCEPT !.loads = door_log.loads + 1,
                                          !.tiles_ok = tiles_ok]
    /\ UNCHANGED <<jump_log, pticks>>
    /\ UNCHANGED actorVars

LevelsNext == SetLevel \/ CallLoadNewLevel

SpecLevels == LevelsInit /\ [][LevelsNext]_vars

(***************************************************************************)
(* The door input of the tick loop: process_door_input() is called once a *)
(* tick with the open key as the events left it; between ticks the player  *)
(* stays where the last tick put it or is put on a door.                   *)
(***************************************************************************)
\* number of process_door_input calls explored
MaxDoorInputs == 3

\* the level descriptors installed with their level numbers: the test
\* level with two doors, lake
InputLevels == {<<9, 1>>, <<0, 0>>}

\* where the player is put: on each used door of the current stage or one
\* unit into it, or at a fixed spot away from the doors
InputPlacements(g) ==
    IF g.current_level_ptr < 0 \/ g.current_stage_number >= 3
    THEN {<<10, 8>>}
    ELSE LET doors == LevelAt(g.current_level_ptr).stages[g.current_stage_number].doors
         IN {<<10, 8>>} \cup
            {<<doors[i].x + dx, doors[i].y>> :
                 i \in {j \in 0..(MAX_NUM_DOORS - 1) : DoorUsed(doors[j])},
                 dx \in 0..1}

InputInit ==
    /\ ActorConstructed
    /\ \E lv \in InputLevels, st \in 0..2, init \in BOOLEAN :
          game = [reset_door_state(reset_physics_state(InitialGlobals)) EXCEPT
                     !.current_level_ptr = lv[1], !.current_level_number = lv[2],
                     !.current_stage_number = st, !.levels_initialized = init,
                     !.comic_x = 10, !.comic_y = 8]
    /\ jump_log = NoJump
    /\ door_log = NoDoorCall
    /\ pticks = 0

\* comic_x = ...; comic_y = ...;
PlaceAtDoor ==
    /\ \E p \in InputPlacements(game) :
          game' = [game EXCEPT !.comic_x = p[1], !.comic_y = p[2]]
    /\ door_log' = [door_log EXCEPT !.fresh = FALSE]
    /\ UNCHANGED <<jump_log, pticks>>
    /\ UNCHANGED actorVars

\* process_door_input(), the second step of a tick
CallProcessDoorInput ==
    /\ door_log.calls < MaxDoorInputs
    /\ \E tiles_ok \in BOOLEAN :
          LET chained == door_log.fresh /\ door_log.slot >= 0 /\ door_log.tiles_ok
              after == process_door_input(game, tiles_ok)
              idle == [game EXCEPT !.previous_key_state_open = game.key_state_open]
              slot == IF after = idle THEN -1 ELSE ActivatedDoor(game)
          IN /\ game' = after
             /\ door_log' =
                   [door_log EXCEPT
                      !.calls = door_log.calls + 1, !.fresh = TRUE,
                      !.tiles_ok = tiles_ok, !.slot = slot,
                      !.ptr = game.current_level_ptr,
                      !.level = game.current_level_number,
                      !.stage = game.current_stage_number,
                      !.ret = IF slot >= 0 THEN 1 ELSE 0,
                      !.o_slot = IF chained THEN door_log.slot ELSE -1,
                      !.o_ptr = IF chained THEN door_log.ptr ELSE -1,
                      !.o_level = IF chained THEN door_log.level ELSE -1,
                      !.o_stage = IF chained THEN door_log.stage ELSE -1]
    /\ UNCHANGED <<jump_log, pticks>>
    /\ UNCHANGED actorVars

InputNext == PlaceAtDoor \/ SetDoorInputs \/ CallProcessDoorInput

SpecInput == InputInit /\ [][InputNext]_vars

(***************************************************************************)
(* Stage edges as the edge tests reach them: the player is written to an   *)
(* edge of the map or onto a door, then move_left(), move_right() or       *)
(* check_door_activation() is called.                                      *)
(***************************************************************************)
\* number of move_left, move_right and check_door_activation calls explored
MaxMoveCalls == 2

\* the level descriptors installed with their level numbers: none, the
\* three test levels, lake
EdgeLevels == {<<-1, 1>>, <<8, 1>>, <<9, 1>>, <<10, 1>>, <<0, 0>>}

\* x positions the player is written to: the two edges and next to them,
\* and the two sides of the wall column of the test level
EdgeXs == {0, 1, 18, 22, MAP_WIDTH - 3, MAP_WIDTH - 2}

\* source-door markers written with the position: none, one left behind
EdgeMarkers == {<<-1, -1>>, <<1, 0>>}

EdgeInit ==
    /\ ActorConstructed
    /\ \E lv \in EdgeLevels, st \in 0..3, init \in BOOLEAN :
          game = [reset_door_state(reset_physics_state(InitialGlobals)) EXCEPT
                     !.current_level_ptr = lv[1], !.current_level_number = lv[2],
                     !.current_stage_number = st, !.levels_initialized = init,
                     !.comic_has_door_key = 1, !.key_state_open = 1,
                     !.comic_x = 10, !.comic_y = 8]
    /\ jump_log = NoJump
    /\ door_log = NoDoorCall
    /\ pticks = 0

\* comic_x = ...; comic_y = 12; comic_x_momentum = ...; (the momentum
\* points at the nearer edge)
PlaceAtEdge ==
    /\ \E x \in EdgeXs, mk \in EdgeMarkers :
          game' = [game EXCEPT !.comic_x = x, !.comic_y = 12,
                               !.comic_x_momentum = IF x <= 18 THEN -1 ELSE 1,
                               !.source_door_level_number = mk[1],
                               !.source_door_stage_number = mk[2]]
    /\ door_log' = [door_log EXCEPT !.fresh = FALSE]
    /\ UNCHANGED <<jump_log, pticks>>
    /\ UNCHANGED actorVars

\* the record of a move call made in state game
MoveLog(side, tiles_ok) ==
    [door_log EXCEPT !.fresh = FALSE, !.tiles_ok = tiles_ok, !.load = side,
                     !.ptr = game.current_level_ptr,
                     !.level = game.current_level_number,
                     !.stage = game.current_stage_number]

\* move_left()
CallMoveLeft ==
    /\ pticks + door_log.calls < MaxMoveCalls
    /\ \E tiles_ok \in BOOLEAN :
          /\ game' = move_left(game, tiles_ok)
          /\ door_log' = MoveLog("left", tiles_ok)
    /\ pticks' = pticks + 1
    /\ UNCHANGED jump_log
    /\ UNCHANGED actorVars

\* move_right()
CallMoveRight ==
    /\ pticks + door_log.calls < MaxMoveCalls
    /\ \E tiles_ok \in BOOLEAN :
          /\ game' = move_right(game, tiles_ok)
          /\ door_log' = MoveLog("right", tiles_ok)
    /\ pticks' = pticks + 1
    /\ UNCHANGED jump_log
    /\ UNCHANGED actorVars

\* check_door_activation()
EdgeDoorCall ==
    /\ pticks + door_log.calls < MaxMoveCalls
    /\ CallCheckDoorActivation

EdgeNext ==
    \/ PlaceAtEdge
    \/ PlaceAtDoor
    \/ CallMoveLeft
    \/ CallMoveRight
    \/ EdgeDoorCall

SpecEdges == EdgeInit /\ [][EdgeNext]_vars

(***************************************************************************)
(* The tick loop of main(), run on the test level with a door standing on  *)
(* the floor: key events arrive between ticks, and each tick runs the body *)
(* of the loop in its source order.                                        *)
(***************************************************************************)
MaxGameTicks == 3

\* the keys an event poll leaves down: jump, left, right, open
TickKeys ==
    {[jump |-> 0, left |-> 0, right |-> 0, open |-> 0],
     [jump |-> 0, left |-> 0, right |-> 1, open |-> 0],
     [jump |-> 0, left |-> 0, right |-> 1, open |-> 1],
     [jump |-> 0, left |-> 1, right |-> 0, open |-> 1],
     [jump |-> 0, left |-> 0, right |-> 0, open |-> 1],
     [jump |-> 1, left |-> 0, right |-> 1, open |-> 0]}

\* the ground movement of the tick loop of main(): only when the player is
\* not in the air, move_left() if left is down, then move_right() if right
\* is down
GroundMovement(g, tiles_ok) ==
    IF g.comic_is_falling_or_jumping # 0 THEN g
    ELSE LET g1 == IF g.key_state_left # 0 THEN move_left(g, tiles_ok) ELSE g
         IN IF g1.key_state_right # 0 THEN move_right(g1, tiles_ok) ELSE g1

\* the body of the tick loop of main(): process_jump_input();
\* process_door_input(); handle_fall_or_jump(); ground movement
GameTickOf(g, tiles_ok) ==
    GroundMovement(
        handle_fall_or_jump(process_door_input(process_jump_input(g), tiles_ok),
                            tiles_ok),
        tiles_ok)

\* the test level with the door of stage 0 on the floor (door x = 6), the
\* player standing on the floor left of it
TickInit ==
    /\ ActorConstructed
    /\ \E x \in {4, 5}, init \in BOOLEAN :
          game = [reset_door_state(reset_physics_state(InitialGlobals)) EXCEPT
                     !.current_level_ptr = 10, !.current_level_number = 1,
                     !.current_stage_number = 0, !.levels_initialized = init,
                     !.comic_x = x, !.comic_y = 14]
    /\ jump_log = NoJump
    /\ door_log = NoDoorCall
    /\ pticks = 0

\* the SDL_PollEvent loop of main(): key down / key up events set the key
\* states, and the K key grants the door key
PollEvents ==
    /\ pticks < MaxGameTicks
    /\ \E k \in TickKeys, grant \in BOOLEAN :
          game' = [game EXCEPT
                      !.key_state_jump = k.jump, !.key_state_left = k.left,
                      !.key_state_right = k.right, !.key_state_open = k.open,
                      !.comic_has_door_key = IF grant THEN 1 ELSE game.comic_has_door_key]
    /\ UNCHANGED <<jump_log, door_log, pticks>>
    /\ UNCHANGED actorVars

\* one pass of the tick loop of main(); the loop makes no call into the
\* actor system
GameTick ==
    /\ pticks < MaxGameTicks
    /\ \E tiles_ok \in BOOLEAN : game' = GameTickOf(game, tiles_ok)
    /\ pticks' = pticks + 1
    /\ UNCHANGED <<jump_log, door_log>>
    /\ UNCHANGED actorVars

TickNext == PollEvents \/ GameTick

SpecTick == TickInit /\ [][TickNext]_vars

(***************************************************************************)
(* The start of main(): the player is put at the spawn position (14, 12),  *)
(* airborne as the globals are initialised, the first level is loaded, and *)
(* the tick loop runs.                                                     *)
(***************************************************************************)
\* number of passes of the tick loop explored
MaxFallTicks == 18

\* main() up to its loop: initialize_level_data() succeeds or fails, the
\* forest level is loaded, and init_test_level() stands in when no level
\* descriptor was installed
FallInit ==
    /\ ActorConstructed
    /\ \E init \in BOOLEAN, tiles_ok \in BOOLEAN :
          LET g == load_new_level(
                       [InitialGlobals EXCEPT
                           !.levels_initialized = init,
                           !.current_level_number = 1,
                           !.current_stage_number = 0,
                           !.source_door_level_number = -1,
                           !.comic_x = 14, !.comic_y = 12, !.comic_y_vel = 0],
                       tiles_ok)
          IN game = IF g.current_level_ptr < 0 THEN init_test_level(g) ELSE g
    /\ jump_log = NoJump
    /\ door_log = NoDoorCall
    /\ pticks = 0

\* one pass of the loop of main(): the event poll sets the key states,
\* then the body of the tick runs
FallTick ==
    /\ pticks < MaxFallTicks
    /\ \E k \in TickKeys, tiles_ok \in BOOLEAN :
          game' = GameTickOf([game EXCEPT
                                 !.key_state_jump = k.jump, !.key_state_left = k.left,
                                 !.key_state_right = k.right, !.key_state_open = k.open],
                             tiles_ok)
    /\ pticks' = pticks + 1
    /\ UNCHANGED <<jump_log, door_log>>
    /\ UNCHANGED actorVars

SpecFall == FallInit /\ [][FallTick]_vars

(***************************************************************************)
(* Behaviour runs: one spawned enemy of each behaviour, slow or fast, is   *)
(* placed beside a wall or on the edge of a platform of the test level and *)
(* update() is called with the player on either side of it.                *)
(***************************************************************************)
\* number of update calls explored
MaxBehaveTicks == 4

\* the enemy under test (slot 0): left of the wall column at x = 20, on
\* the right end of the platform at y = 14, or in the air near the right
\* end of the map; Bounce and Shy are placed moving, the others at rest
BehaveEnemies ==
    {PlacedEnemy(b + f, ENEMY_STATE_SPAWNED, at[1], at[2], v) :
        b \in {ENEMY_BEHAVIOR_BOUNCE, ENEMY_BEHAVIOR_SHY},
        f \in {0, ENEMY_BEHAVIOR_FAST},
        at \in {<<18, 12>>, <<49, 11>>, <<MAP_WIDTH - 3, 11>>},
        v \in {<<-1, -1>>, <<1, 1>>}}
    \cup
    {PlacedEnemy(b + f, ENEMY_STATE_SPAWNED, at[1], at[2], <<0, 0>>) :
        b \in {ENEMY_BEHAVIOR_LEAP, ENEMY_BEHAVIOR_ROLL, ENEMY_BEHAVIOR_SEEK},
        f \in {0, ENEMY_BEHAVIOR_FAST},
        at \in {<<18, 12>>, <<49, 11>>, <<MAP_WIDTH - 3, 11>>}}

\* player arguments of update(): right of the wall looking back at it, in
\* the enemy's column below it, left of the enemy and above it, right of
\* the platform, and at the right end of the map
BehavePlayers ==
    {[x |-> 24, y |-> 12, facing |-> COMIC_FACING_LEFT, cam |-> 8],
     [x |-> 18, y |-> 14, facing |-> COMIC_FACING_RIGHT, cam |-> 6],
     [x |-> 14, y |-> 10, facing |-> COMIC_FACING_RIGHT, cam |-> 2],
     [x |-> 60, y |-> 11, facing |-> COMIC_FACING_LEFT, cam |-> 40],
     [x |-> MAP_WIDTH - 2, y |-> 2, facing |-> COMIC_FACING_RIGHT,
      cam |-> MAP_WIDTH - PLAYFIELD_WIDTH]}

\* ActorSystem(); reset_actor_state(); then the direct writes of a test
BehaveInit ==
    /\ \E e \in BehaveEnemies :
           enemies = Arr(<<e, UntouchedEnemy, UntouchedEnemy, UntouchedEnemy>>)
    /\ actor_tileset_last_passable = 62
    /\ actor_current_tiles = "null"
    /\ spawned_this_tick = 0
    /\ spawn_offset_cycle = PLAYFIELD_WIDTH
    /\ enemy_respawn_counter_cycle = RESPAWN_TIMER_MIN
    /\ g_comic_x = 0
    /\ g_comic_y = 0
    /\ g_comic_facing = COMIC_FACING_LEFT
    /\ g_camera_x = 0
    /\ stage_tiles \in {"empty", "test"}
    /\ ticks = 0
    /\ enemies_before = enemies
    /\ red_age = [i \in Slots |-> -1]
    /\ setup_failed = {}
    /\ PlayerStart

\* actor_system.update(comic_x, comic_y, comic_facing, tiles, camera_x)
BehaveUpdate ==
    /\ ticks < MaxBehaveTicks
    /\ \E p \in BehavePlayers : UpdateWith(p)

SpecBehave == BehaveInit /\ [][BehaveUpdate]_vars

(***************************************************************************)
(* Properties.                                                             *)
(***************************************************************************)
\* this step is one call of update(); the player arguments of the call
\* are then g_comic_x', g_comic_y', g_comic_facing', g_camera_x'
TickStep == ticks' = ticks + 1

\* absolute value
Abs(n) == IF n < 0 THEN -n ELSE n

\* is the slot able to spawn: despawned, timer at most 1, behaviour in use
ReadyToSpawn(e) ==
    /\ e.state = ENEMY_STATE_DESPAWNED
    /\ e.timer <= 1
    /\ BehaviorType(e.behavior) < ENEMY_BEHAVIOR_UNUSED

\* C1: in one update at most one slot goes from Despawned to Spawned,
\* however many slots are ready; every other despawned slot is still
\* Despawned after the tick.
C1_OneSpawnPerTick ==
    [][TickStep =>
        /\ Cardinality({i \in Slots : /\ enemies[i].state = ENEMY_STATE_DESPAWNED
                                      /\ enemies'[i].state # ENEMY_STATE_DESPAWNED}) <= 1
        /\ \A i \in Slots :
              enemies[i].state = ENEMY_STATE_DESPAWNED
              => enemies'[i].state \in {ENEMY_STATE_DESPAWNED, ENEMY_STATE_SPAWNED}]_vars

\* C1 witness: a tick began with at least three ready slots and ended with
\* exactly one of them spawned
C1_Witness ==
    /\ ticks > 0
    /\ Cardinality({i \in Slots : ReadyToSpawn(enemies_before[i])}) >= 3
    /\ Cardinality({i \in Slots : /\ ReadyToSpawn(enemies_before[i])
                                  /\ enemies[i].state = ENEMY_STATE_SPAWNED}) = 1
    /\ Cardinality({i \in Slots : /\ ReadyToSpawn(enemies_before[i])
                                  /\ enemies[i].state = ENEMY_STATE_DESPAWNED
                                  /\ enemies[i].timer = 0}) >= 2

\* the respawn timer values, and the value that follows v in the cycle
RespawnValues == {20, 40, 60, 80, 100}
RespawnSuccessor(v) == IF v = 100 THEN 20 ELSE v + 20

\* the value n places after v in the cycle
RECURSIVE RespawnAdvance(_, _)
RespawnAdvance(v, n) == IF n = 0 THEN v ELSE RespawnAdvance(RespawnSuccessor(v), n - 1)

\* slots below i (or all slots, for i = MAX_NUM_ENEMIES) whose death
\* animation completes in the tick that starts in the current state
Completing(i) ==
    {j \in Slots : j < i /\ enemies[j].state \in {ENEMY_STATE_WHITE_SPARK + 5,
                                                  ENEMY_STATE_RED_SPARK + 5}}

\* C5: each completed death animation hands the enemy the current value of
\* the one shared counter and advances it, so successive completions get
\* 20, 40, 60, 80, 100, 20, ... in order of completion whatever the slot;
\* no other step changes the counter beyond that, and the counter is always
\* one of 20, 40, 60, 80, 100.
C5_RespawnCycle ==
    [][/\ enemy_respawn_counter_cycle \in RespawnValues
       /\ enemy_respawn_counter_cycle' \in RespawnValues
       /\ TickStep =>
            /\ \A i \in Completing(MAX_NUM_ENEMIES) :
                  /\ enemies'[i].state = ENEMY_STATE_DESPAWNED
                  /\ enemies'[i].timer =
                        RespawnAdvance(enemy_respawn_counter_cycle,
                                       Cardinality(Completing(i)))
            /\ enemy_respawn_counter_cycle' =
                  RespawnAdvance(enemy_respawn_counter_cycle,
                                 Cardinality(Completing(MAX_NUM_ENEMIES)))
       /\ ~TickStep => enemy_respawn_counter_cycle' = enemy_respawn_counter_cycle]_vars

\* C5 witness: the fifth completion in a run: a death animation that
\* completed in the last tick was handed 100 and the counter wrapped to 20
C5_Witness ==
    /\ ticks > 0
    /\ \E i \in Slots :
          /\ enemies_before[i].state = ENEMY_STATE_RED_SPARK + 5
          /\ enemies[i].state = ENEMY_STATE_DESPAWNED
          /\ enemies[i].timer = 100
    /\ enemy_respawn_counter_cycle = 20

\* the lifecycle states
LifecycleStates == {0, 1} \cup (2..7) \cup (8..13)

\* the state changes one tick may make to a slot in state st
TickSuccessors(st) ==
    IF st = ENEMY_STATE_DESPAWNED THEN {ENEMY_STATE_DESPAWNED, ENEMY_STATE_SPAWNED}
    ELSE IF st = ENEMY_STATE_SPAWNED
    THEN {ENEMY_STATE_SPAWNED, ENEMY_STATE_DESPAWNED, ENEMY_STATE_RED_SPARK,
          ENEMY_STATE_WHITE_SPARK + 5}
    ELSE IF st \in {ENEMY_STATE_WHITE_SPARK + 5, ENEMY_STATE_RED_SPARK + 5}
    THEN {ENEMY_STATE_DESPAWNED}
    ELSE {st + 1}

\* C6: the state of a slot is always 0, 1, 2..7 or 8..13; a tick changes it
\* only Despawned->Spawned, Spawned->Despawned, Spawned->first red frame,
\* Spawned->last white frame, frame k->k+1 below the last frame, last
\* frame->Despawned.  Hence a slot that entered the first red frame in a
\* tick is in red frame k after k further ticks (k <= 5) and Despawned
\* after the sixth, and a dying slot never becomes Spawned directly.
C6_Lifecycle ==
    [][/\ \A i \in Slots : /\ enemies[i].state \in LifecycleStates
                           /\ enemies'[i].state \in LifecycleStates
       /\ TickStep =>
            \A i \in Slots :
                /\ enemies'[i].state \in TickSuccessors(enemies[i].state)
                /\ red_age'[i] \in 0..5
                      => enemies'[i].state = ENEMY_STATE_RED_SPARK + red_age'[i]
                /\ red_age'[i] = 6 => enemies'[i].state = ENEMY_STATE_DESPAWNED
                /\ enemies[i].state >= ENEMY_STATE_WHITE_SPARK
                      => enemies'[i].state # ENEMY_STATE_SPAWNED]_vars

\* C6 witness: a slot that collided six ticks ago has just been despawned by
\* the end of its red-spark animation
C6_Witness ==
    \E i \in Slots :
        /\ red_age[i] = 6
        /\ enemies_before[i].state = ENEMY_STATE_RED_SPARK + 5
        /\ enemies[i].state = ENEMY_STATE_DESPAWNED

\* the collision box: enemy at (ex, ey), player at (cx, cy)
InBox(ex, ey, cx, cy) ==
    /\ ex - cx >= -1 /\ ex - cx <= 1
    /\ ey - cy >= 0 /\ ey - cy < 4

\* slot i was Spawned at the player's position when the tick of this step
\* began
CoLocated(i) ==
    /\ enemies[i].state = ENEMY_STATE_SPAWNED
    /\ enemies[i].x = g_comic_x'
    /\ enemies[i].y = g_comic_y'

\* C7: a Spawned enemy at the player's position when a tick begins is in
\* the first red-spark frame after the tick; one that begins the tick four
\* units below the player's y (same x) is not.
C7_CollisionAtTickStart ==
    [][TickStep =>
        \A i \in Slots :
            /\ CoLocated(i) => enemies'[i].state = ENEMY_STATE_RED_SPARK
            /\ (/\ enemies[i].state = ENEMY_STATE_SPAWNED
                /\ enemies[i].x = g_comic_x'
                /\ enemies[i].y = g_comic_y' + 4)
               => enemies'[i].state # ENEMY_STATE_RED_SPARK]_vars

C9_DespawnByDistance ==
    [][TickStep =>
        /\ \A i \in Slots :
              enemies[i].state = ENEMY_STATE_SPAWNED =>
                  /\ enemies'[i].state = ENEMY_STATE_DESPAWNED
                        <=> Abs(enemies'[i].x - g_comic_x') > 30
                  /\ enemies'[i].state = ENEMY_STATE_DESPAWNED
                        => enemies'[i].timer =
                              RespawnAdvance(enemy_respawn_counter_cycle,
                                             Cardinality(Completing(i)))
        /\ enemy_respawn_counter_cycle' =
              RespawnAdvance(enemy_respawn_counter_cycle,
                             Cardinality(Completing(MAX_NUM_ENEMIES)))]_vars

\* C9 witness: in the last tick slot 0 completed a death animation (handed
\* 20) and slot 1, Spawned within the radius before its move, ended more
\* than 30 away and was despawned with the value 40, which is still the
\* counter
C9_Witness ==
    /\ ticks > 0
    /\ enemies_before[0].state = ENEMY_STATE_RED_SPARK + 5
    /\ enemies[0].state = ENEMY_STATE_DESPAWNED
    /\ enemies[0].timer = 20
    /\ enemies_before[1].state = ENEMY_STATE_SPAWNED
    /\ Abs(enemies_before[1].x - g_comic_x) = 30
    /\ Abs(enemies[1].x - g_comic_x) = 31
    /\ enemies[1].state = ENEMY_STATE_DESPAWNED
    /\ enemies[1].timer = 40
    /\ enemy_respawn_counter_cycle = 40

ApexHeight(power) == IF power = JUMP_POWER_DEFAULT THEN 7 ELSE 9

\* C2: for a jump started from the ground with the jump key pressed and
\* then held and no horizontal input, the lowest y reached before the
\* descent begins is exactly 7 above the launch y with jump power 4 and
\* exactly 9 above it with jump power 5 (and never more while rising).
C2_JumpApex ==
    (jump_log.active /\ jump_log.clean) =>
        /\ jump_log.launch_y - jump_log.min_y <= ApexHeight(game.comic_jump_power)
        /\ jump_log.descended =>
              jump_log.launch_y - jump_log.min_y = ApexHeight(game.comic_jump_power)

\* C2 witness: a held jump with power 5 from the floor has come down and
\* landed again; its apex was 9 above the floor
C2_Witness ==
    /\ jump_log.active /\ jump_log.clean /\ jump_log.descended
    /\ game.comic_jump_power = JUMP_POWER_WITH_BOOTS
    /\ jump_log.launch_y = 14
    /\ jump_log.min_y = 5
    /\ game.comic_is_falling_or_jumping = 0
    /\ game.comic_y = 14

\* a step that is one call of check_door_activation
DoorCall == door_log'.calls = door_log.calls + 1

\* the doors of the stage the player is in
DoorsHere(g) == LevelAt(g.current_level_ptr).stages[g.current_stage_number].doors

\* the slots of the current stage whose used door has the player's y and
\* the player's x within [door.x, door.x + 2], when a level is loaded, the
\* stage number is below 3, the open input is 1 and the key is held
MatchingDoors(g) ==
    IF /\ g.current_level_ptr >= 0
       /\ g.current_stage_number < 3
       /\ g.key_state_open = 1
       /\ g.comic_has_door_key = 1
    THEN {i \in 0..(MAX_NUM_DOORS - 1) :
             /\ DoorsHere(g)[i].x # DOOR_UNUSED
             /\ DoorsHere(g)[i].y # DOOR_UNUSED
             /\ DoorsHere(g)[i].y = g.comic_y
             /\ DoorsHere(g)[i].x <= g.comic_x
             /\ g.comic_x <= DoorsHere(g)[i].x + 2}
    ELSE {}

\* C3: a call of check_door_activation activates a door exactly when a
\* level is loaded, the stage number is below 3, the open input is 1, the
\* key is held and some used door of the stage has the player's y and the
\* player's x in [door.x, door.x + 2]; the door activated is the matching
\* one in the lowest slot, an activated door with a valid target makes its
\* target the current level and stage, and a call that activates nothing
\* leaves the game state as it was.
C3_DoorActivation ==
    [][DoorCall =>
          /\ (door_log'.slot >= 0) <=> (MatchingDoors(game) # {})
          /\ door_log'.slot >= 0 =>
                /\ door_log'.slot \in MatchingDoors(game)
                /\ \A j \in MatchingDoors(game) : door_log'.slot <= j
                /\ LET door == DoorsHere(game)[door_log'.slot]
                   IN (door.target_stage < 3 /\ door.target_level < 8) =>
                         /\ game'.current_stage_number = door.target_stage
                         /\ game'.current_level_number = door.target_level
          /\ door_log'.slot < 0 => game' = game]_vars

\* C3 witness: with two doors of the stage matching the player's position
\* (slots 1 and 2 of stage 0 of the two-door test level), the call
\* activated slot 1 and the player is now in that door's target stage
C3_Witness ==
    /\ door_log.fresh
    /\ door_log.ptr = 9 /\ door_log.stage = 0
    /\ door_log.slot = 1
    /\ game.current_stage_number = 1

\* the door the last call activated and the door the call before it
\* activated
LastDoor == LevelAt(door_log.ptr).stages[door_log.stage].doors[door_log.slot]
OriginDoor == LevelAt(door_log.o_ptr).stages[door_log.o_stage].doors[door_log.o_slot]

\* the lowest slot of the origin stage whose used door targets the stage
\* the round trip went to
FirstDoorToB ==
    LET doors == LevelAt(door_log.o_ptr).stages[door_log.o_stage].doors
        hits == {i \in 0..(MAX_NUM_DOORS - 1) :
                    /\ DoorUsed(doors[i])
                    /\ doors[i].target_level = door_log.level
                    /\ doors[i].target_stage = door_log.stage}
    IN doors[CHOOSE i \in hits : \A j \in hits : i <= j]

\* a round trip has just been completed: a door of stage A (the origin
\* call) led to stage B, whose tiles loaded and which holds a door back to
\* A; the player was not moved, and the next call activated a door of B
\* that targets A, whose tiles loaded again, and the level descriptor in
\* use is again the one the trip started from
RoundTrip ==
    /\ game.levels_initialized
    /\ game.current_level_ptr = door_log.o_ptr
    /\ door_log.fresh /\ door_log.tiles_ok
    /\ door_log.slot >= 0 /\ door_log.o_slot >= 0
    /\ OriginDoor.target_stage < 3 /\ OriginDoor.target_level < 8
    /\ OriginDoor.target_level = door_log.level
    /\ OriginDoor.target_stage = door_log.stage
    /\ LastDoor.target_level = door_log.o_level
    /\ LastDoor.target_stage = door_log.o_stage

\* C4 as stated: after the round trip the player is at the door originally
\* used in A: same y, x within [door.x, door.x + 2].
C4_BackAtDoorUsed ==
    RoundTrip =>
        /\ game.comic_y = OriginDoor.y
        /\ OriginDoor.x <= game.comic_x
        /\ game.comic_x <= OriginDoor.x + 2

\* C4 amended: after the round trip the player is in stage A at the
\* lowest-slot door of A that targets B (x = door.x + 1, y = door.y); that
\* is the door originally used whenever A has no lower slot targeting B.
C4_BackAtFirstDoorToB ==
    RoundTrip =>
        /\ game.current_stage_number = door_log.o_stage
        /\ game.current_level_number = door_log.o_level
        /\ game.comic_y = FirstDoorToB.y
        /\ game.comic_x = FirstDoorToB.x + 1
        /\ (\A j \in 0..(door_log.o_slot - 1) :
               LET d == LevelAt(door_log.o_ptr).stages[door_log.o_stage].doors[j]
               IN ~(DoorUsed(d) /\ d.target_level = door_log.level
                                /\ d.target_stage = door_log.stage))
           => /\ game.comic_y = OriginDoor.y
              /\ game.comic_x = OriginDoor.x + 1

\* C4 witness: a round trip that started at slot 1 of stage 0 of the
\* two-door test level, where slot 0 targets the same stage, has ended at
\* slot 0's door
C4_Witness ==
    /\ RoundTrip
    /\ door_log.o_ptr = 9 /\ door_log.o_stage = 0 /\ door_log.o_slot = 1
    /\ game.comic_x = 11 /\ game.comic_y = 8

\* C11: a slot that the last stage setup gave up on (unused record, sprite
\* index out of range, sprite not loaded or without frames) is Despawned
\* in every state until the next stage setup.
C11_FailedSlotsStayDespawned ==
    \A i \in setup_failed : enemies[i].state = ENEMY_STATE_DESPAWNED

\* a step that is one player tick of the physics fixture
PlayerTick == pticks' = pticks + 1

\* C12: a tick's jump input sends a Grounded player into the air only if
\* jump is pressed in that tick, was not pressed in the tick before and the
\* jump counter equals the jump power (and then it does); a Grounded
\* player who keeps jump held from one tick to the next does not start a
\* jump.
C12_JumpEdgeTrigger ==
    [][PlayerTick =>
          /\ jump_log'.launched
                <=> /\ game.comic_is_falling_or_jumping = 0
                    /\ game'.key_state_jump # 0
                    /\ game.previous_key_state_jump = 0
                    /\ game.comic_jump_counter = game.comic_jump_power
          /\ (/\ game.comic_is_falling_or_jumping = 0
              /\ game.key_state_jump # 0
              /\ game'.key_state_jump # 0)
             => ~jump_log'.launched]_vars

\* C12 witness: the player has landed from a jump, stands on the floor and
\* has kept jump held over the last two ticks without a new jump starting
C12_Witness ==
    /\ jump_log.active /\ jump_log.descended /\ ~jump_log.launched
    /\ jump_log.held
    /\ game.comic_is_falling_or_jumping = 0
    /\ game.comic_y = 14
    /\ game.key_state_jump = 1
    /\ game.previous_key_state_jump = 1
    /\ pticks >= 2

\* C13: in a tick that the player spends Grounded (no jump starts in it)
\* the jump counter becomes the jump power when jump is not held and keeps
\* its value when jump is held; and a jump never starts while there has
\* been an Airborne tick with no Grounded tick with jump released after it.
C13_Recharge ==
    [][PlayerTick =>
          /\ (game.comic_is_falling_or_jumping = 0 /\ ~jump_log'.launched)
             => game'.comic_jump_counter =
                   IF game'.key_state_jump = 0 THEN game.comic_jump_power
                   ELSE game.comic_jump_counter
          /\ jump_log'.launched => ~jump_log.since_air]_vars

\* C13 witness: a second jump has just started, after the first Airborne
\* phase ended and jump was released on the ground
C13_Witness ==
    /\ jump_log.launched
    /\ jump_log.air_phases = 2
    /\ game.comic_is_falling_or_jumping = 1

\* C14: after every tick the jump counter is at most the jump power, the
\* vertical velocity is at most the terminal velocity, and the horizontal
\* momentum is within [-5, 5]; the velocity is also at least
\* -128 + JUMP_ACCELERATION, so the one subtraction of JUMP_ACCELERATION and
\* the one addition of COMIC_GRAVITY (at most 23 + 5) that a tick performs
\* on it never leave the signed 8-bit range.
C14_PlayerBounds ==
    /\ game.comic_jump_counter <= game.comic_jump_power
    /\ game.comic_y_vel <= TERMINAL_VELOCITY
    /\ game.comic_y_vel >= -128 + JUMP_ACCELERATION
    /\ game.comic_y_vel + COMIC_GRAVITY <= 127
    /\ game.comic_x_momentum >= -5
    /\ game.comic_x_momentum <= 5

\* C14 witness: a fall that has reached the terminal velocity with the
\* jump counter run down to its sentinel
C14_Witness ==
    /\ pticks > 0
    /\ game.comic_is_falling_or_jumping = 1
    /\ game.comic_y_vel = TERMINAL_VELOCITY
    /\ game.comic_jump_counter = 1

\* the state process_jump_input leaves for handle_fall_or_jump in the
\* tick that is being taken: the keys of the tick, then the jump trigger
TickEntry ==
    process_jump_input([game EXCEPT !.key_state_jump = game'.key_state_jump,
                                    !.key_state_left = game'.key_state_left,
                                    !.key_state_right = game'.key_state_right])

\* a tick whose only change of y is the integration of step 4: the
\* airborne branch runs, no ceiling-stick adjustment is pending, and the
\* player neither lands nor is reset at the bottom bound
IntegratingTick ==
    /\ PlayerTick
    /\ TickEntry.comic_is_falling_or_jumping # 0
    /\ ~game.ceiling_stick_flag
    /\ game'.comic_is_falling_or_jumping # 0

\* v / 8 rounded toward zero
TowardZero8(v) == IF v >= 0 THEN v \div 8 ELSE -((-v) \div 8)

\* v / 8 rounded toward negative infinity
Floor8(v) == v \div 8

\* C15 as stated: on an airborne tick y changes by the integrated
\* velocity divided by 8 and rounded toward zero.
C15_RoundsTowardZero ==
    [][IntegratingTick =>
          game'.comic_y - game.comic_y = TowardZero8(AirVelocity(TickEntry))]_vars

\* C15 amended: on an airborne tick y changes by the integrated velocity
\* divided by 8 and rounded toward negative infinity (the arithmetic shift
\* comic_y_vel >> 3), for negative as well as positive velocities.
C15_RoundsTowardNegativeInfinity ==
    [][IntegratingTick =>
          game'.comic_y - game.comic_y = Floor8(AirVelocity(TickEntry))]_vars

\* C15 witness: a rising tick has just integrated a negative velocity that
\* is not a multiple of 8: the -11 of the third tick of a held jump, which
\* leaves -6 after gravity
C15_Witness ==
    /\ jump_log.active /\ jump_log.clean /\ ~jump_log.launched
    /\ game.comic_is_falling_or_jumping = 1
    /\ game.comic_y_vel = -6
    /\ game.comic_y < jump_log.launch_y - 2

\* C16: after any sequence of ticks the player's coordinates are inside the
\* stage, in unsigned 8-bit range: 0 <= x <= 255 and 0 <= y < 20; y is
\* never negative.
C16_InsideStage ==
    /\ game.comic_x >= 0 /\ game.comic_x <= 255
    /\ game.comic_y >= 0 /\ game.comic_y < PLAYFIELD_HEIGHT

\* C17: when the last call activated a door with a valid target, the
\* current stage and level numbers are the door's target, the loader that
\* was called is the full level load exactly when the target level differs
\* from the level the player was in and the stage-only load otherwise, and
\* the source-door marker at the moment of that call was the level and the
\* stage the player departed from.
C17_ActivateDoor ==
    (door_log.slot >= 0 /\ DoorTargetValid(LastDoor)) =>
        /\ game.current_stage_number = LastDoor.target_stage
        /\ game.current_level_number = LastDoor.target_level
        /\ door_log.load = IF LastDoor.target_level # door_log.level
                           THEN "level" ELSE "stage"
        /\ door_log.m_level = door_log.level
        /\ door_log.m_stage = door_log.stage

\* C17 witness: a door of shipped level 0 that leads into another level
\* has been activated, and the full level load has made that level's
\* descriptor the current one
C17_Witness ==
    /\ door_log.fresh /\ door_log.slot >= 0
    /\ door_log.ptr = 0
    /\ door_log.load = "level"
    /\ game.current_level_ptr # 0
    /\ game.current_level_number = LastDoor.target_level

\* C17 second witness: a door into another stage of the same level
C17_WitnessSameLevel ==
    /\ door_log.fresh /\ door_log.slot >= 0
    /\ door_log.load = "stage"
    /\ game.current_stage_number # door_log.stage

\* the source-door marker
Marker(g) == <<g.source_door_level_number, g.source_door_stage_number>>

\* C18 as stated: when check_door_activation has just returned 1, the
\* source-door marker is the level and stage the player departed from.
C18_MarkerIsDeparture ==
    (door_log.fresh /\ door_log.ret = 1) =>
        Marker(game) = <<door_log.level, door_log.stage>>

\* C18 amended: when check_door_activation returns 1 for a door with a
\* valid target, the marker is the departure level and stage only if the
\* stage load did not run to its end (level data not initialised, or the
\* stage tiles failed to load); a stage load that ran to its end has used
\* the marker and cleared it to (-1, -1).  For a door with an invalid target
\* the marker is what it was before the call.
C18_MarkerAfterActivation ==
    [][(DoorCall /\ door_log'.ret = 1) =>
          LET door == DoorsHere(game)[door_log'.slot]
          IN Marker(game') =
                IF ~DoorTargetValid(door) THEN Marker(game)
                ELSE IF game.levels_initialized /\ door_log'.tiles_ok
                THEN <<-1, -1>>
                ELSE <<game.current_level_number, game.current_stage_number>>]_vars

\* C18 witness: a door was activated, its stage load ran to its end and
\* put the player at the reciprocal door, and the marker is cleared
C18_Witness ==
    /\ door_log.fresh /\ door_log.ret = 1
    /\ DoorTargetValid(LastDoor)
    /\ game.levels_initialized /\ door_log.tiles_ok
    /\ game.current_stage_number # door_log.stage
    /\ door_log.m_level = door_log.level /\ door_log.m_stage = door_log.stage
    /\ Marker(game) = <<-1, -1>>

\* C18 second witness: the stage tiles failed to load and the marker still
\* holds the departure level and stage
C18_WitnessKept ==
    /\ door_log.fresh /\ door_log.ret = 1
    /\ DoorTargetValid(LastDoor)
    /\ game.levels_initialized /\ ~door_log.tiles_ok
    /\ Marker(game) = <<door_log.level, door_log.stage>>

\* a step that is one direct call of load_new_stage
LoadCall == door_log'.loads = door_log.loads + 1

\* the used doors of the stage being loaded whose target is the marker
MarkerDoors(g) ==
    IF g.current_level_ptr < 0 \/ g.current_stage_number >= 3 THEN {}
    ELSE {i \in 0..(MAX_NUM_DOORS - 1) :
             /\ DoorsHere(g)[i].x # DOOR_UNUSED
             /\ DoorsHere(g)[i].y # DOOR_UNUSED
             /\ DoorsHere(g)[i].target_level = g.source_door_level_number
             /\ DoorsHere(g)[i].target_stage = g.source_door_stage_number}

\* the load has placed the player at the first door targeting the marker,
\* or left the player where they were when there is no such door
PlacedAtMarkerDoor ==
    /\ MarkerDoors(game) # {} =>
          LET i == CHOOSE k \in MarkerDoors(game) :
                      \A j \in MarkerDoors(game) : k <= j
              cam == DoorsHere(game)[i].x + 1 - PLAYFIELD_WIDTH \div 2
          IN /\ game'.comic_x = DoorsHere(game)[i].x + 1
             /\ game'.comic_y = DoorsHere(game)[i].y
             /\ game'.comic_y_vel = 0
             /\ game'.camera_x >= 0
             /\ game'.camera_x <= MAP_WIDTH - PLAYFIELD_WIDTH
             /\ (cam >= 0 /\ cam <= MAP_WIDTH - PLAYFIELD_WIDTH)
                   => game'.camera_x = cam
             /\ cam < 0 => game'.camera_x = 0
             /\ cam > MAP_WIDTH - PLAYFIELD_WIDTH
                   => game'.camera_x = MAP_WIDTH - PLAYFIELD_WIDTH
    /\ MarkerDoors(game) = {} =>
          /\ game'.comic_x = game.comic_x
          /\ game'.comic_y = game.comic_y

\* C19 as stated: whenever load_new_stage runs with a non-negative marker
\* it places the player at the first door of the new stage that targets the
\* marker, or leaves the position unchanged when there is none, and the
\* marker is (-1, -1) when it returns.
C19_MarkerAlwaysCleared ==
    [][(LoadCall /\ game.source_door_level_number >= 0) =>
          /\ PlacedAtMarkerDoor
          /\ Marker(game') = <<-1, -1>>]_vars

\* C19 amended: the same, provided the load runs to its entry positioning
\* (level data initialised, a level descriptor set, stage number below 3,
\* stage tiles loaded); a load that returns early changes nothing and the
\* marker keeps its value.
C19_MarkerClearedByCompletedLoad ==
    [][(LoadCall /\ game.source_door_level_number >= 0) =>
          IF /\ game.levels_initialized
             /\ game.current_level_ptr >= 0
             /\ game.current_stage_number < 3
             /\ door_log'.tiles_ok
          THEN /\ PlacedAtMarkerDoor
               /\ Marker(game') = <<-1, -1>>
          ELSE game' = game]_vars

\* C19 witness: stage 0 of the two-door test level was loaded with the
\* marker of stage 1, which two of its doors target; the player is at the
\* first of them and the marker is cleared
C19_Witness ==
    /\ door_log.loads > 0 /\ door_log.tiles_ok
    /\ game.current_level_ptr = 9 /\ game.current_stage_number = 0
    /\ game.comic_x = 11 /\ game.comic_y = 8
    /\ game.current_tiles = "stage"
    /\ Marker(game) = <<-1, -1>>

\* C20: a call of check_door_activation returns 1 only when a door
\* transition was performed (the current stage and level are the matched
\* door's target and a loader was called); whenever no transition is
\* performed, a matched door with an invalid target included, it returns 0
\* and level number, stage number, source-door marker and player position
\* are unchanged.
C20_ReturnsOneOnlyOnTransition ==
    [][DoorCall =>
          /\ door_log'.ret = 1 =>
                /\ door_log'.load # "none"
                /\ game'.current_stage_number =
                      DoorsHere(game)[door_log'.slot].target_stage
                /\ game'.current_level_number =
                      DoorsHere(game)[door_log'.slot].target_level
          /\ door_log'.load = "none" =>
                /\ door_log'.ret = 0
                /\ game'.current_level_number = game.current_level_number
                /\ game'.current_stage_number = game.current_stage_number
                /\ Marker(game') = Marker(game)
                /\ game'.comic_x = game.comic_x
                /\ game'.comic_y = game.comic_y]_vars

\* C26: a step that is setup_enemies_for_stage for a loaded level and a
\* stage number 0..2 leaves every enemy slot Despawned with its spawn timer
\* equal to the respawn-cycle value, whatever the slot's state was, and the
\* respawn-cycle counter and the spawn-offset cycle keep their values.
C26_SetupResetsSlots ==
    [][ActorSetupStage =>
          /\ \A i \in Slots :
                /\ enemies'[i].state = ENEMY_STATE_DESPAWNED
                /\ enemies'[i].timer = enemy_respawn_counter_cycle
          /\ enemy_respawn_counter_cycle' = enemy_respawn_counter_cycle
          /\ spawn_offset_cycle' = spawn_offset_cycle]_vars

\* C26 witness: after the last update call a stage of another level was
\* set up (a slot that was Spawned has a new behaviour), the respawn cycle
\* and the spawn offset have both advanced from their initial values, and
\* every slot is Despawned with the cycle value as its timer
C26_Witness ==
    /\ ticks > 0
    /\ \E i \in Slots :
          /\ enemies_before[i].state = ENEMY_STATE_SPAWNED
          /\ enemies_before[i].behavior # enemies[i].behavior
    /\ enemy_respawn_counter_cycle # RESPAWN_TIMER_MIN
    /\ spawn_offset_cycle # PLAYFIELD_WIDTH
    /\ \A i \in Slots :
          /\ enemies[i].state = ENEMY_STATE_DESPAWNED
          /\ enemies[i].timer = enemy_respawn_counter_cycle

\* the slots that went from Despawned to Spawned between two enemy arrays
SpawnedIn(before, after) ==
    {i \in Slots : /\ before[i].state = ENEMY_STATE_DESPAWNED
                   /\ after[i].state = ENEMY_STATE_SPAWNED}

\* the cycle 24 -> 26 -> 28 -> 30 -> 24
OffsetAfter(off) ==
    IF off = 24 THEN 26 ELSE IF off = 26 THEN 28 ELSE IF off = 28 THEN 30 ELSE 24

\* C27: a tick in which an enemy spawns advances the shared spawn offset by
\* one step of the cycle 24 -> 26 -> 28 -> 30 -> 24 and a tick without a
\* spawn leaves it alone; the offset is always one of 24, 26, 28, 30; and
\* an enemy spawned in the tick after another spawn, with the same camera
\* position and facing, gets a different x.
C27_SpawnOffsetCycle ==
    [][TickStep =>
          /\ spawn_offset_cycle \in {24, 26, 28, 30}
          /\ spawn_offset_cycle' =
                IF SpawnedIn(enemies, enemies') # {}
                THEN OffsetAfter(spawn_offset_cycle) ELSE spawn_offset_cycle
          /\ \A i \in SpawnedIn(enemies_before, enemies),
                j \in SpawnedIn(enemies, enemies') :
                (g_camera_x' = g_camera_x /\ g_comic_facing' = g_comic_facing)
                   => enemies'[j].x # enemies[i].x]_vars

\* C28: an enemy spawned in a tick is strictly to the right of the player
\* when the player faces right and strictly to the left of the player when
\* the player faces left.
C28_SpawnedAhead ==
    [][TickStep =>
          \A j \in SpawnedIn(enemies, enemies') :
             IF g_comic_facing' = COMIC_FACING_RIGHT
             THEN enemies'[j].x > g_comic_x'
             ELSE enemies'[j].x < g_comic_x']_vars

\* is the enemy a Leap enemy (fast or slow)
IsLeap(e) == BehaviorType(e.behavior) = ENEMY_BEHAVIOR_LEAP

\* is the enemy a Roll enemy (fast or slow)
IsRoll(e) == BehaviorType(e.behavior) = ENEMY_BEHAVIOR_ROLL

\* the tile probe of this step's update call at (x, y)
SolidUnder(x, y) ==
    check_vertical_enemy_map_collision(
        [tiles |-> stage_tiles, lp |-> actor_tileset_last_passable], x, y)

\* the states of the white-spark animation
WhiteSparkStates ==
    ENEMY_STATE_WHITE_SPARK .. (ENEMY_STATE_WHITE_SPARK + DEATH_ANIMATION_LAST_FRAME)

\* does the downward move of this enemy reach the bottom band
ReachesBottom(e) ==
    /\ e.state = ENEMY_STATE_SPAWNED
    /\ e.y_vel > 0
    /\ \/ IsLeap(e) /\ U8(e.y + Sar3(e.y_vel)) >= PLAYFIELD_HEIGHT - 2
       \/ IsRoll(e) /\ e.y + 1 >= PLAYFIELD_HEIGHT - 3

\* C29: for a Leap enemy Spawned when a tick begins: if its y_vel is 0 and
\* the tile 2 units below it is solid, the tick leaves its position alone,
\* sets y_vel to -7 and x_vel to +1 or -1, toward the player; on every
\* other tick whose downward move does not reach the bottom band, y_vel
\* becomes 0 when it has landed (falling, on an even row with solid ground
\* 2 units below) and min(y_vel + 2, 23) otherwise, whatever its restraint;
\* and its y_vel is within -7..23 after the tick.
C29_LeapTick ==
    [][TickStep =>
        \A i \in Slots :
          LET e == enemies[i]
              e2 == enemies'[i]
              fallen == Min(e.y_vel + ENEMY_GRAVITY, TERMINAL_VELOCITY)
          IN (e.state = ENEMY_STATE_SPAWNED /\ IsLeap(e)) =>
               /\ (e.y_vel = 0 /\ SolidUnder(e.x, U8(e.y + 2))) =>
                     /\ e2.x = e.x /\ e2.y = e.y
                     /\ e2.y_vel = ENEMY_JUMP_VELOCITY
                     /\ e2.x_vel \in {-1, 1}
                     /\ g_comic_x' > e.x => e2.x_vel = 1
                     /\ g_comic_x' < e.x => e2.x_vel = -1
               /\ (~(e.y_vel = 0 /\ SolidUnder(e.x, U8(e.y + 2)))
                   /\ ~ReachesBottom(e)) =>
                     e2.y_vel = IF /\ fallen > 0
                                   /\ e2.y % 2 = 0
                                   /\ SolidUnder(e2.x, U8(e2.y + 2))
                                THEN 0 ELSE fallen
               /\ e2.y_vel \in ENEMY_JUMP_VELOCITY .. TERMINAL_VELOCITY]_vars

\* C29 witness: in the last tick a slow Leap enemy standing on the floor to
\* the right of the player began a leap: it has not moved, rises with -7
\* and heads left
C29_Witness ==
    /\ ticks > 0
    /\ enemies_before[0].state = ENEMY_STATE_SPAWNED
    /\ enemies_before[0].behavior = ENEMY_BEHAVIOR_LEAP
    /\ enemies_before[0].y_vel = 0
    /\ enemies_before[0].x_vel = 0
    /\ enemies[0].state = ENEMY_STATE_SPAWNED
    /\ enemies[0].y_vel = ENEMY_JUMP_VELOCITY
    /\ enemies[0].x_vel = -1
    /\ enemies[0].x = enemies_before[0].x
    /\ enemies[0].y = enemies_before[0].y
    /\ g_comic_x < enemies[0].x

\* C30: a Leap or Roll enemy whose downward move reaches the bottom band in
\* a tick is in a white-spark state after that tick; on the next tick (no
\* stage reset having come between) it becomes Despawned and the respawn
\* cycle takes a new value.
C30_FallDeath ==
    [][TickStep =>
        \A i \in Slots :
           /\ ReachesBottom(enemies[i]) => enemies'[i].state \in WhiteSparkStates
           /\ (/\ ticks > 0
               /\ ReachesBottom(enemies_before[i])
               /\ enemies[i].state \in WhiteSparkStates) =>
                 /\ enemies'[i].state = ENEMY_STATE_DESPAWNED
                 /\ enemy_respawn_counter_cycle' # enemy_respawn_counter_cycle]_vars

\* all tile ids
TileIds == 0..255

TransitionState(g) ==
    <<g.current_level_number, g.current_stage_number, g.current_level_ptr,
      g.source_door_level_number, g.source_door_stage_number,
      g.comic_x, g.comic_y, g.comic_y_vel, g.camera_x,
      g.current_tiles, g.tileset_last_passable>>

\* C21: a process_door_input call that finds the open key down and had it
\* down at the call before (the key was held from one tick to the next)
\* makes no door transition: level, stage, marker, position, camera and
\* tiles stay as they are, so a player the previous call put on the
\* reciprocal door is not sent back.
C21_OpenEdgeTriggered ==
    [][(/\ DoorCall
        /\ game.key_state_open # 0
        /\ game.previous_key_state_open # 0) =>
          /\ TransitionState(game') = TransitionState(game)
          /\ door_log'.ret = 0]_vars

\* C21 witness: two calls in a row with open held; the first took the
\* player through a door and the stage load put them on the door that
\* leads back; the second left them there, in the target stage
C21_Witness ==
    /\ door_log.calls >= 2
    /\ door_log.fresh
    /\ door_log.o_slot >= 0
    /\ door_log.ret = 0
    /\ game.levels_initialized
    /\ game.key_state_open = 1
    /\ game.previous_key_state_open = 1
    /\ game.comic_is_falling_or_jumping = 0
    /\ game.current_stage_number = OriginDoor.target_stage
    /\ game.current_level_number = OriginDoor.target_level
    /\ ActivatedDoor(game) >= 0
    /\ DoorsHere(game)[ActivatedDoor(game)].target_level = door_log.o_level
    /\ DoorsHere(game)[ActivatedDoor(game)].target_stage = door_log.o_stage

\* this step is one call of move_left() / move_right()
MoveCall == pticks' = pticks + 1

\* C22: move_left called with the player at x = 0, and move_right called
\* with the player at x >= 254: when no level is loaded, the stage number
\* is 3 or more or the stage has no exit on that side, the call zeroes the
\* horizontal momentum and leaves position, stage number and camera alone;
\* otherwise the stage number becomes the exit target, the player is at
\* x = 254 (x = 0 after move_right), the source-door marker is cleared
\* (source_door_level_number = -1, the test the stage load makes) and the
\* stage load has run: when it goes through, the tiles of the stage are
\* installed and the camera is set for the new position.
C22_StageEdge ==
    [][(MoveCall /\ (\/ door_log'.load = "left" /\ game.comic_x = 0
                     \/ door_log'.load = "right" /\ game.comic_x >= MAP_WIDTH - 2)) =>
          LET left == door_log'.load = "left"
              target == ExitOf(game, IF left THEN "l" ELSE "r")
              new_x == IF left THEN MAP_WIDTH - 2 ELSE 0
          IN IF \/ game.current_level_ptr < 0
                \/ game.current_stage_number >= 3
                \/ target = EXIT_UNUSED
             THEN /\ game'.comic_x_momentum = 0
                  /\ game'.comic_x = game.comic_x
                  /\ game'.comic_y = game.comic_y
                  /\ game'.current_stage_number = game.current_stage_number
                  /\ game'.camera_x = game.camera_x
             ELSE /\ game'.current_stage_number = target
                  /\ game'.comic_x = new_x
                  /\ game'.source_door_level_number = -1
                  /\ (game.levels_initialized /\ target < 3 /\ door_log'.tiles_ok) =>
                        /\ game'.current_tiles = "stage"
                        /\ game'.camera_x =
                              (IF left THEN MAP_WIDTH - PLAYFIELD_WIDTH ELSE 0)]_vars

\* C22 witness: move_left at the left edge of lake stage 0 has taken the
\* player to stage 1, to x = 254 with the camera at the right end, the
\* stage tiles loaded and a marker left behind before the call cleared
C22_Witness ==
    /\ pticks > 0
    /\ door_log.load = "left"
    /\ door_log.ptr = 0
    /\ door_log.stage = 0
    /\ game.current_stage_number = 1
    /\ game.comic_x = MAP_WIDTH - 2
    /\ game.camera_x = MAP_WIDTH - PLAYFIELD_WIDTH
    /\ game.current_tiles = "stage"
    /\ game.source_door_level_number = -1
    /\ game.source_door_stage_number = 0

\* C23: a door activation or a move across a stage edge that starts with
\* the stage number in 0..2 and the level number in 0..7 ends with them in
\* these ranges, whatever targets the descriptor holds.
C23_NumbersInRange ==
    [][((DoorCall \/ MoveCall)
        /\ game.current_stage_number \in 0..2
        /\ game.current_level_number \in 0..7) =>
          /\ game'.current_stage_number \in 0..2
          /\ game'.current_level_number \in 0..7]_vars

\* the tick as the data flow states it: player physics first (jump input,
\* fall or jump, ground movement with its stage-boundary transition), then
\* the door-activation check on the position that physics produced
PhysicsThenDoor(g, tiles_ok) ==
    process_door_input(
        GroundMovement(handle_fall_or_jump(process_jump_input(g), tiles_ok), tiles_ok),
        tiles_ok)

\* C25: within one tick the player physics (with any stage-boundary
\* transition) runs before the door-activation check, so the door check sees
\* the player position this tick's physics produced: the state a tick
\* leaves is the one that physics followed by the door check leaves.
C25_TickOrder ==
    [][PlayerTick => \E tiles_ok \in BOOLEAN :
                        game' = PhysicsThenDoor(game, tiles_ok)]_vars

\* is the enemy a Spawned Roll enemy that falls and whose fall does not
\* reach the bottom band in this tick
RollFalling(e) ==
    /\ e.state = ENEMY_STATE_SPAWNED
    /\ IsRoll(e)
    /\ e.y_vel > 0
    /\ ~ReachesBottom(e)

\* the sign of a velocity
Sign(v) == IF v > 0 THEN 1 ELSE IF v < 0 THEN -1 ELSE 0

IsSeek(e) == BehaviorType(e.behavior) = ENEMY_BEHAVIOR_SEEK

\* C32: in one tick a Spawned Seek enemy changes at most one coordinate,
\* by exactly 1 and toward the player: x only while its x differs from the
\* player's x, y only when its x equals the player's x; it never steps
\* away from the player (a blocked probe leaves it where it is), and on a
\* tick its restraint skips it does not move.
C32_SeekStep ==
    [][TickStep =>
        \A i \in Slots :
           LET e == enemies[i]
               dx == enemies'[i].x - e.x
               dy == enemies'[i].y - e.y
           IN (e.state = ENEMY_STATE_SPAWNED /\ IsSeek(e)) =>
                /\ Abs(dx) + Abs(dy) <= 1
                /\ dx # 0 => (e.x # g_comic_x' /\ dx = Sign(g_comic_x' - e.x))
                /\ dy # 0 => (e.x = g_comic_x' /\ dy = Sign(g_comic_y' - e.y))
                /\ e.restraint = ENEMY_RESTRAINT_SKIP_THIS_TICK => (dx = 0 /\ dy = 0)]_vars

\* C32 witness: the last tick found the Seek enemy in the player's column
\* and above the player, and moved it one unit down and not sideways
C32_Witness ==
    /\ ticks > 0
    /\ enemies_before[0].state = ENEMY_STATE_SPAWNED
    /\ IsSeek(enemies_before[0])
    /\ enemies_before[0].x = g_comic_x
    /\ enemies_before[0].y < g_comic_y
    /\ enemies[0].x = enemies_before[0].x
    /\ enemies[0].y = enemies_before[0].y + 1

\* C32 second witness: the last tick found the wall between the Seek enemy
\* and the player, and the enemy stayed where it was, now heading left
C32_WitnessBlocked ==
    /\ ticks > 0
    /\ enemies_before[0].state = ENEMY_STATE_SPAWNED
    /\ IsSeek(enemies_before[0])
    /\ enemies_before[0].restraint # ENEMY_RESTRAINT_SKIP_THIS_TICK
    /\ enemies_before[0].x < g_comic_x
    /\ enemies[0].x = enemies_before[0].x
    /\ enemies[0].y = enemies_before[0].y
    /\ enemies[0].x_vel = -1

\* is the enemy a Shy enemy (fast or slow)
IsShy(e) == BehaviorType(e.behavior) = ENEMY_BEHAVIOR_SHY

\* does the player of this step's update call face the enemy
FacedByPlayer(e) ==
    \/ g_comic_facing' = COMIC_FACING_RIGHT /\ e.x > g_comic_x'
    \/ g_comic_facing' = COMIC_FACING_LEFT /\ e.x < g_comic_x'

\* C33: on a tick its restraint does not skip, a Spawned Shy enemy that
\* the player faces does not go down (its y does not increase), whatever
\* vertical velocity it had; one the player does not face takes its
\* vertical step, if any, toward the player's y, and none when it is level
\* with the player.
C33_ShyVertical ==
    [][TickStep =>
        \A i \in Slots :
           LET e == enemies[i]
               dy == enemies'[i].y - e.y
           IN (/\ e.state = ENEMY_STATE_SPAWNED
               /\ IsShy(e)
               /\ e.restraint # ENEMY_RESTRAINT_SKIP_THIS_TICK) =>
                 IF FacedByPlayer(e) THEN dy <= 0
                 ELSE dy # 0 => dy = Sign(g_comic_y' - e.y)]_vars

\* C33 witness: in the last tick a Shy enemy that was going down, faced by
\* a player standing lower than it, went up by one
C33_Witness ==
    /\ ticks > 0
    /\ enemies_before[0].state = ENEMY_STATE_SPAWNED
    /\ IsShy(enemies_before[0])
    /\ enemies_before[0].restraint # ENEMY_RESTRAINT_SKIP_THIS_TICK
    /\ enemies_before[0].y_vel > 0
    /\ g_comic_facing = COMIC_FACING_LEFT
    /\ enemies_before[0].x < g_comic_x
    /\ enemies_before[0].y < g_comic_y
    /\ enemies[0].y = enemies_before[0].y - 1

\* the slot holds an enemy of one of the five behaviours that is Spawned
\* before and after this step
StaysSpawned(i) ==
    /\ BehaviorType(enemies[i].behavior) \in ENEMY_BEHAVIOR_BOUNCE..ENEMY_BEHAVIOR_SHY
    /\ enemies[i].state = ENEMY_STATE_SPAWNED
    /\ enemies'[i].state = ENEMY_STATE_SPAWNED

\* the other one of Move-This-Tick and Skip-This-Tick
OtherRestraint(r) ==
    IF r = ENEMY_RESTRAINT_MOVE_THIS_TICK THEN ENEMY_RESTRAINT_SKIP_THIS_TICK
    ELSE ENEMY_RESTRAINT_MOVE_THIS_TICK

\* the slow restraint values
SlowRestraints == {ENEMY_RESTRAINT_MOVE_THIS_TICK, ENEMY_RESTRAINT_SKIP_THIS_TICK}

\* a Leap enemy at rest on solid ground: this tick begins a leap
LeapBegins(e) == IsLeap(e) /\ e.y_vel = 0 /\ SolidUnder(e.x, U8(e.y + 2))

\* a Roll enemy whose tick is not skipped and finds it without horizontal
\* velocity: rolling in the player's column, or falling with x_vel = 0
RollAtRest(e) ==
    /\ IsRoll(e)
    /\ e.restraint # ENEMY_RESTRAINT_SKIP_THIS_TICK
    /\ IF e.y_vel > 0 THEN e.x_vel = 0 ELSE e.x = g_comic_x'

KneePassable(dx) ==
    ~is_tile_solid(game, get_tile_at(game, game.comic_x + dx, U8(game.comic_y + 3)))

\* C35: away from a stage edge, move_left (move_right) changes the player's
\* x by exactly -1 (+1) and sets the facing when the tile at knee height at
\* x - 1 (x + 2) is passable, and otherwise leaves x, facing and camera
\* unchanged and zeroes the horizontal momentum
C35_MoveProbe ==
    [][MoveCall =>
          /\ (door_log'.load = "left" /\ game.comic_x > 0) =>
                IF KneePassable(-1)
                THEN /\ game'.comic_x = game.comic_x - 1
                     /\ game'.comic_facing = COMIC_FACING_LEFT
                ELSE /\ game'.comic_x = game.comic_x
                     /\ game'.comic_facing = game.comic_facing
                     /\ game'.camera_x = game.camera_x
                     /\ game'.comic_x_momentum = 0
          /\ (door_log'.load = "right" /\ game.comic_x < MAP_WIDTH - 2) =>
                IF KneePassable(2)
                THEN /\ game'.comic_x = game.comic_x + 1
                     /\ game'.comic_facing = COMIC_FACING_RIGHT
                ELSE /\ game'.comic_x = game.comic_x
                     /\ game'.comic_facing = game.comic_facing
                     /\ game'.camera_x = game.camera_x
                     /\ game'.comic_x_momentum = 0]_vars

\* a move_right() next to the wall column was refused: the player still
\* stands at x = 18 facing left after an earlier step to the left, with the
\* momentum zeroed
C35_Witness ==
    /\ pticks = 2
    /\ door_log.load = "right"
    /\ game.current_tiles = "test"
    /\ game.comic_x = 18 /\ game.comic_y = 12
    /\ game.comic_facing = COMIC_FACING_LEFT
    /\ game.comic_x_momentum = 0

\* a move_left() or move_right() call made away from the stage edges, the
\* calls that move the player instead of changing the stage
PlainMove ==
    /\ MoveCall
    /\ door_log'.load = "left" => game.comic_x > 0
    /\ door_log'.load = "right" => game.comic_x < MAP_WIDTH - 2

Integrated ==
    AirVertical(process_jump_input(
        [game EXCEPT !.key_state_jump = game'.key_state_jump,
                     !.key_state_left = game'.key_state_left,
                     !.key_state_right = game'.key_state_right]))

\* the tick is an airborne one that finds floor at foot level: the
\* velocity of the integrated state v points down and the tile under the
\* feet, at the x the horizontal step of the tick reached, is solid
DetectsFloor(v) ==
    /\ game.comic_is_falling_or_jumping # 0
    /\ v.comic_y_vel > 0
    /\ SolidAtOrRight(game', game'.comic_x, U8(v.comic_y + 5))

\* the landing of a tick whose integration gave v: y snapped to the floor,
\* never up and at most one down, at rest
LandsFrom(v) ==
    /\ game'.comic_y = 2 * ((v.comic_y + 5) \div 2) - 4
    /\ game'.comic_y - v.comic_y \in {0, 1}
    /\ game'.comic_y_vel = 0
    /\ game'.comic_x_momentum = 0

\* the player g stands, not airborne, with something solid under the feet
AtRest(g) ==
    /\ g.comic_is_falling_or_jumping = 0
    /\ SolidAtOrRight(g, g.comic_x, U8(g.comic_y + 5))

\* no key is held in state g
NoKeys(g) == g.key_state_jump = 0 /\ g.key_state_left = 0 /\ g.key_state_right = 0

\* C37: when a falling player detects floor at foot level, y is snapped to
\* 2 * floor((y + 5) / 2) - 4, which never moves the player up and moves
\* the player down by at most 1, vertical velocity and momentum are zeroed
\* and the player becomes Grounded (standing on the floor); from a standing
\* position a tick with no input leaves the player Grounded at the same
\* position, so the player stays there on every subsequent such tick
C37_LandingSnap ==
    [][PlayerTick =>
          /\ game.comic_is_falling_or_jumping # 0 =>
                LET v == Integrated
                IN DetectsFloor(v) => LandsFrom(v) /\ AtRest(game')
          /\ (AtRest(game) /\ NoKeys(game')) =>
                /\ AtRest(game')
                /\ game'.comic_x = game.comic_x
                /\ game'.comic_y = game.comic_y
                /\ game'.current_tiles = game.current_tiles]_vars

\* a jump from the floor came down again: the player stands where the jump
\* started, at rest, and a tick without input has passed there
C37_Witness ==
    /\ jump_log.active /\ jump_log.descended
    /\ jump_log.min_y < jump_log.launch_y
    /\ game.comic_y = jump_log.launch_y
    /\ AtRest(game) /\ NoKeys(game)
    /\ game.comic_y_vel = 0 /\ game.comic_x_momentum = 0
    /\ game.comic_jump_counter = game.comic_jump_power

\* the y that step 4 of an airborne tick reaches from state g: the
\* velocity integrated, one more when the player was stuck to a ceiling
YAfterIntegration(g) ==
    LET counter == IF g.comic_jump_counter > 0 THEN g.comic_jump_counter - 1
                   ELSE g.comic_jump_counter
        stick == IF counter = 0 \/ g.key_state_jump = 0 THEN FALSE
                 ELSE g.ceiling_stick_flag
    IN g.comic_y + Sar3(AirVelocity(g)) + (IF stick THEN 1 ELSE 0)

\* the player as the tick that ends in game' found it when it reached
\* handle_fall_or_jump: the keys of game' set, jump input processed
AtFallOrJump ==
    process_jump_input(
        [game EXCEPT !.key_state_jump = game'.key_state_jump,
                     !.key_state_left = game'.key_state_left,
                     !.key_state_right = game'.key_state_right,
                     !.key_state_open = game'.key_state_open])

\* the tick ended with the player put back at the respawn height, the
\* airborne flag cleared
WasReset == game'.comic_y = 1 /\ game'.comic_is_falling_or_jumping = 0

\* C38: on an Airborne tick the player is reset (y set to the fixed
\* respawn value and the Airborne flag cleared) exactly when the y reached
\* after position integration exceeds PLAYFIELD_HEIGHT - 3; a player whose
\* y after integration is at most PLAYFIELD_HEIGHT - 3 is not reset
C38_ResetWhenBelow ==
    [][(PlayerTick /\ AtFallOrJump.comic_is_falling_or_jumping # 0) =>
          (WasReset <=> YAfterIntegration(AtFallOrJump) > PLAYFIELD_HEIGHT - 3)]_vars

\* slot i of es is Despawned and holds a behaviour that can spawn
AwaitsSpawn(es, i) ==
    /\ es[i].state = ENEMY_STATE_DESPAWNED
    /\ BehaviorType(es[i].behavior) < ENEMY_BEHAVIOR_UNUSED

\* the spawn timers of the slots that await a spawn, -1 for the others
WaitingTimers(es) == [j \in Slots |-> IF AwaitsSpawn(es, j) THEN es[j].timer ELSE -1]

\* the number of ticks after which slot i is served when the slots have
\* the waiting timers t: a slot is ready from tick max(timer, 1) on, and
\* every tick serves the lowest ready slot, so slot i is served on the
\* first tick from its ready tick on that serves no lower slot
RECURSIVE ServedAfter(_, _)
ServedAfter(t, i) ==
    LET taken == {ServedAfter(t, k) : k \in {k \in Slots : k < i /\ t[k] >= 0}}
        from == IF t[i] > 1 THEN t[i] ELSE 1
        free == {n \in from..(from + MAX_NUM_ENEMIES) : n \notin taken}
    IN CHOOSE n \in free : \A m \in free : n <= m

\* the larger of two numbers
Max(a, b) == IF a > b THEN a ELSE b

\* C39: a Despawned slot holding a valid behaviour whose spawn timer is N
\* becomes Spawned within max(N, 1) + 3 ticks when no stage reset
\* intervenes: the timer decreases by 1 per tick without underflowing, a
\* slot blocked by the one-spawn-per-tick gate retries on the next tick,
\* and slots that are ready on the same tick are served in ascending order.
\* While the timer is above 1 a tick takes one off it; from timer 1 or 0 on
\* the slot is served on the tick the ascending order gives it, which is
\* at most the fourth
C39_SpawnWithin ==
    [][TickStep =>
          \A i \in Slots :
             AwaitsSpawn(enemies, i) =>
                IF enemies[i].timer > 1
                THEN /\ AwaitsSpawn(enemies', i)
                     /\ enemies'[i].timer = enemies[i].timer - 1
                ELSE LET due == ServedAfter(WaitingTimers(enemies), i)
                     IN /\ due <= Max(enemies[i].timer, 1) + 3
                        /\ IF due = 1
                           THEN enemies'[i].state = ENEMY_STATE_SPAWNED
                           ELSE /\ AwaitsSpawn(enemies', i)
                                /\ enemies'[i].timer = 0
                                /\ ServedAfter(WaitingTimers(enemies'), i) = due - 1]_vars

\* slot 3 is served last of four slots that became ready together: it was
\* turned away by the gate on the updates that served slots 0, 1 and 2 and
\* becomes Spawned on the one after
C39_Witness ==
    /\ ticks >= 4
    /\ enemies[3].state = ENEMY_STATE_SPAWNED
    /\ AwaitsSpawn(enemies_before, 3)
    /\ enemies_before[3].timer = 0
    /\ \A j \in 0..2 : enemies_before[j].state # ENEMY_STATE_DESPAWNED

\* C40: while an enemy stays Spawned its x changes by at most 1 per tick
\* and never wraps around the unsigned 8-bit range (no step from 255 to 0
\* or from 0 to 255), for all five behaviours and any player and camera
\* position with the camera x in [0, 232]
C40_NoWrap ==
    [][TickStep =>
          \A i \in Slots :
             StaysSpawned(i) => Abs(enemies'[i].x - enemies[i].x) <= 1]_vars


====
